---- MODULE Spec2Model ----
(***************************************************************************)
(* Rate limiter (token buckets, delivery queues, tier configuration) of    *)
(* the WhatsApp auto-reply backend, and the message handler that consults  *)
(* it.  Times are Date.now() values in milliseconds.                       *)
(***************************************************************************)
EXTENDS Integers, Sequences, FiniteSets, TLC

VARIABLES
    now,            \* Date.now()
    ticks,          \* number of clock advances so far (bounds the run)
    limits,         \* RateLimiter.limits, the active configuration
    userBuckets,    \* RateLimiter.userBuckets : userId -> bucket
    lastCall,       \* per userId: what the last consumeToken returned and logged
    messageQueues,  \* RateLimiter.messageQueues : userId -> reference to an array
    arrays,         \* the queue arrays : reference -> sequence of message ids
    entries,        \* the queue entry objects : message id -> {queuedAt, retryCount}
    nextId,         \* the next message handed to queueMessage
    drains,         \* the processMessageQueue calls in progress
    delivered,      \* per userId: the messages sendFunction has sent, in order
    lastInbound,    \* what processIncomingMessage did with the last inbound message
    typing,         \* the sendTypingMessage call traced step by step: its chat events
    typingDuration, \* what calculateTypingDelay returned for the last auto-reply
    autoReply,      \* the WhatsAppHandler: its counters, its calls in progress, its sends
    manager         \* the WhatsAppManager: its clients map and its sessions map

clockVars == <<now, ticks>>
ledgerVars == <<limits, userBuckets, lastCall>>
queueVars == <<messageQueues, arrays, entries, nextId, drains, delivered>>
handlerVars == <<lastInbound, typing, typingDuration, autoReply, manager>>
vars == <<now, ticks, limits, userBuckets, lastCall, messageQueues, arrays,
          entries, nextId, drains, delivered, lastInbound, typing,
          typingDuration, autoReply, manager>>

-----------------------------------------------------------------------------
(* Bounds of the model *)

MaxTicks == 2
MaxRequests == 6
MaxMessages == 3

-----------------------------------------------------------------------------
(* Program constants *)

MinuteMs == 60 * 1000
HourMs == 60 * 60 * 1000
bucketTimeout == 60 * 60 * 1000
QueueCapacity == 10
MaxRetries == 3

\* userIds are strings; they are sequences of characters here because
\* cleanup(sessionId) matches them by substring.
Users == { <<"a", "1">>, <<"b", "2">> }

NoScope == <<>>
Scopes == { NoScope, <<"a">>, <<"s">> }

DefaultLimits == [messagesPerMinute |-> 2, messagesPerHour |-> 20, burstLimit |-> 3]
HighLoadLimits == [messagesPerMinute |-> 1, messagesPerHour |-> 15, burstLimit |-> 2]
LowLoadLimits == [messagesPerMinute |-> 3, messagesPerHour |-> 30, burstLimit |-> 4]
EmergencyLimits == [messagesPerMinute |-> 1, messagesPerHour |-> 5, burstLimit |-> 1]

TierNames == { "basic", "standard", "premium", "unlimited", "other" }

getTierLimits(tier) ==
    CASE tier = "basic" ->
            [messagesPerMinute |-> 1, messagesPerHour |-> 10, burstLimit |-> 2]
      [] tier = "premium" ->
            [messagesPerMinute |-> 5, messagesPerHour |-> 50, burstLimit |-> 5]
      [] tier = "unlimited" ->
            [messagesPerMinute |-> 100, messagesPerHour |-> 1000, burstLimit |-> 10]
      [] OTHER ->
            [messagesPerMinute |-> 2, messagesPerHour |-> 20, burstLimit |-> 3]

Min(a, b) == IF a < b THEN a ELSE b
Max(a, b) == IF a > b THEN a ELSE b

-----------------------------------------------------------------------------
(* Token buckets *)

\* A bucket created with an empty burst pool.
createNewBucketNoBurst(lim, userId, t) ==
    [ userId |-> userId,
      minuteTokens |-> lim.messagesPerMinute,
      minuteRefillTime |-> t,
      hourTokens |-> lim.messagesPerHour,
      hourRefillTime |-> t,
      burstTokens |-> 0,
      createdAt |-> t,
      lastActivity |-> t,
      totalRequests |-> 0,
      blockedRequests |-> 0 ]

createNewBucket(lim, userId, t) ==
    [ userId |-> userId,
      minuteTokens |-> lim.messagesPerMinute,
      minuteRefillTime |-> t,
      hourTokens |-> lim.messagesPerHour,
      hourRefillTime |-> t,
      burstTokens |-> lim.burstLimit,
      createdAt |-> t,
      lastActivity |-> t,
      totalRequests |-> 0,
      blockedRequests |-> 0 ]

\* refillBucket that needs more than one whole minute before it refills.
refillBucketOffByOne(bucket, lim, t) ==
    LET minutesElapsed == (t - bucket.minuteRefillTime) \div MinuteMs
        hoursElapsed == (t - bucket.hourRefillTime) \div HourMs
        b1 == IF minutesElapsed > 1
              THEN [bucket EXCEPT
                      !.minuteTokens = Min(lim.messagesPerMinute, @ + minutesElapsed),
                      !.minuteRefillTime = t]
              ELSE bucket
        b2 == IF hoursElapsed > 0
              THEN [b1 EXCEPT
                      !.hourTokens = Min(lim.messagesPerHour,
                                         @ + hoursElapsed * lim.messagesPerHour),
                      !.hourRefillTime = t]
              ELSE b1
    IN  IF b2.burstTokens < lim.burstLimit /\ minutesElapsed > 1
        THEN [b2 EXCEPT
                !.burstTokens = Min(lim.burstLimit, @ + (minutesElapsed \div 2))]
        ELSE b2

refillBucket(bucket, lim, t) ==
    LET minutesElapsed == (t - bucket.minuteRefillTime) \div MinuteMs
        hoursElapsed == (t - bucket.hourRefillTime) \div HourMs
        b1 == IF minutesElapsed > 0
              THEN [bucket EXCEPT
                      !.minuteTokens = Min(lim.messagesPerMinute, @ + minutesElapsed),
                      !.minuteRefillTime = t]
              ELSE bucket
        b2 == IF hoursElapsed > 0
              THEN [b1 EXCEPT
                      !.hourTokens = Min(lim.messagesPerHour,
                                         @ + hoursElapsed * lim.messagesPerHour),
                      !.hourRefillTime = t]
              ELSE b1
    IN  IF b2.burstTokens < lim.burstLimit /\ minutesElapsed > 0
        THEN [b2 EXCEPT
                !.burstTokens = Min(lim.burstLimit, @ + (minutesElapsed \div 2))]
        ELSE b2

\* consumeToken without its hour check.
consumeTokenIgnoringHour(bucket, t) ==
    LET b0 == [bucket EXCEPT !.totalRequests = @ + 1, !.lastActivity = t]
    IN  IF b0.burstTokens > 0
        THEN [bucket |-> [b0 EXCEPT !.burstTokens = @ - 1],
              result |-> TRUE, log |-> "burst"]
        ELSE IF b0.minuteTokens <= 0
        THEN [bucket |-> [b0 EXCEPT !.blockedRequests = @ + 1],
              result |-> FALSE, log |-> "minute_exceeded"]
        ELSE [bucket |-> [b0 EXCEPT !.minuteTokens = @ - 1, !.hourTokens = @ - 1],
              result |-> TRUE, log |-> "token"]

\* consumeToken whose burst branch falls through to the steady pools.
consumeTokenBurstFallsThrough(bucket, t) ==
    LET b0 == [bucket EXCEPT !.totalRequests = @ + 1, !.lastActivity = t]
    IN  IF b0.burstTokens > 0
        THEN [bucket |-> [b0 EXCEPT !.burstTokens = @ - 1,
                                    !.minuteTokens = @ - 1, !.hourTokens = @ - 1],
              result |-> TRUE, log |-> "burst"]
        ELSE IF b0.minuteTokens <= 0
        THEN [bucket |-> [b0 EXCEPT !.blockedRequests = @ + 1],
              result |-> FALSE, log |-> "minute_exceeded"]
        ELSE IF b0.hourTokens <= 0
        THEN [bucket |-> [b0 EXCEPT !.blockedRequests = @ + 1],
              result |-> FALSE, log |-> "hour_exceeded"]
        ELSE [bucket |-> [b0 EXCEPT !.minuteTokens = @ - 1, !.hourTokens = @ - 1],
              result |-> TRUE, log |-> "token"]

\* consumeToken that does not count an hour denial as blocked.
consumeTokenUncountedDenial(bucket, t) ==
    LET b0 == [bucket EXCEPT !.totalRequests = @ + 1, !.lastActivity = t]
    IN  IF b0.burstTokens > 0
        THEN [bucket |-> [b0 EXCEPT !.burstTokens = @ - 1],
              result |-> TRUE, log |-> "burst"]
        ELSE IF b0.minuteTokens <= 0
        THEN [bucket |-> [b0 EXCEPT !.blockedRequests = @ + 1],
              result |-> FALSE, log |-> "minute_exceeded"]
        ELSE IF b0.hourTokens <= 0
        THEN [bucket |-> b0, result |-> FALSE, log |-> "hour_exceeded"]
        ELSE [bucket |-> [b0 EXCEPT !.minuteTokens = @ - 1, !.hourTokens = @ - 1],
              result |-> TRUE, log |-> "token"]

\* The result holds the bucket as consumeToken leaves it, the value it
\* returns and which of its four log lines it wrote.
consumeToken(bucket, t) ==
    LET b0 == [bucket EXCEPT !.totalRequests = @ + 1, !.lastActivity = t]
    IN  IF b0.burstTokens > 0
        THEN [bucket |-> [b0 EXCEPT !.burstTokens = @ - 1],
              result |-> TRUE, log |-> "burst"]
        ELSE IF b0.minuteTokens <= 0
        THEN [bucket |-> [b0 EXCEPT !.blockedRequests = @ + 1],
              result |-> FALSE, log |-> "minute_exceeded"]
        ELSE IF b0.hourTokens <= 0
        THEN [bucket |-> [b0 EXCEPT !.blockedRequests = @ + 1],
              result |-> FALSE, log |-> "hour_exceeded"]
        ELSE [bucket |-> [b0 EXCEPT !.minuteTokens = @ - 1, !.hourTokens = @ - 1],
              result |-> TRUE, log |-> "token"]

\* The bucket map after getUserBucket(userId): created if absent, then refilled.
getUserBucket(buckets, lim, userId, t) ==
    LET had == IF userId \in DOMAIN buckets
               THEN buckets
               ELSE buckets @@ (userId :> createNewBucket(lim, userId, t))
    IN  [had EXCEPT ![userId] = refillBucket(@, lim, t)]

\* checkLimit(userId): the bucket map it leaves and consumeToken's outcome.
checkLimit(buckets, lim, userId, t) ==
    LET bs == getUserBucket(buckets, lim, userId, t)
        r == consumeToken(bs[userId], t)
    IN  [buckets |-> [bs EXCEPT ![userId] = r.bucket],
         result |-> r.result, log |-> r.log]

Called(r) == [result |-> r.result, log |-> r.log]
NoCall == [result |-> FALSE, log |-> "none"]

\* The model stops counting requests of a bucket at MaxRequests.
MayRequest(userId) ==
    userId \in DOMAIN userBuckets => userBuckets[userId].totalRequests < MaxRequests

-----------------------------------------------------------------------------
(* Operations of the rate limiter *)

CheckLimit(userId) ==
    LET r == checkLimit(userBuckets, limits, userId, now)
    IN  /\ MayRequest(userId)
        /\ userBuckets' = r.buckets
        /\ lastCall' = [lastCall EXCEPT ![userId] = Called(r)]
        /\ UNCHANGED <<clockVars, limits, queueVars, handlerVars>>

\* getUserStatus reads the refilled bucket into the snapshot and then calls
\* checkLimit for the snapshot's canSend field.
GetUserStatus(userId) ==
    LET bs == getUserBucket(userBuckets, limits, userId, now)
        r == checkLimit(bs, limits, userId, now)
    IN  /\ MayRequest(userId)
        /\ userBuckets' = r.buckets
        /\ lastCall' = [lastCall EXCEPT ![userId] = Called(r)]
        /\ UNCHANGED <<clockVars, limits, queueVars, handlerVars>>

\* checkAdvancedLimit fetches the bucket under the active limits, swaps
\* this.limits for the tier's while consumeToken runs, and restores the copy.
CheckAdvancedLimit(userId, tier) ==
    LET tierLimits == getTierLimits(tier)
        bs == getUserBucket(userBuckets, limits, userId, now)
        originalLimits == limits
        r == consumeToken(bs[userId], now)
    IN  /\ MayRequest(userId)
        /\ userBuckets' = [bs EXCEPT ![userId] = r.bucket]
        /\ limits' = originalLimits
        /\ lastCall' = [lastCall EXCEPT ![userId] = Called(r)]
        /\ UNCHANGED <<clockVars, queueVars, handlerVars>>

Procs == { 1, 2 }

NoDrain ==
    [pc |-> "idle", userId |-> <<>>, queue |-> 0, i |-> 0, message |-> 0,
     processedMessages |-> <<>>]

NoInbound ==
    [from |-> <<>>, admitted |-> FALSE, checked |-> FALSE, sendMessage |-> <<>>]

\* The WhatsAppHandler as its constructor leaves it, with no call of
\* handleIncomingMessage in progress and nothing sent.  lastMessageTime maps
\* the identities replied to; sent lists the messages passed to
\* chat.sendMessage, and sentThisHour counts them since the last hourly reset.
NoAutoReply ==
    [hourlyReplyCount |-> 0, lastHourReset |-> 0, messageCount |-> 0,
     lastMessageTime |-> << >>,
     calls |-> [h \in Procs |-> [pc |-> "idle", from |-> << >>]],
     sent |-> << >>, sentThisHour |-> 0]

\* The WhatsAppManager as its constructor leaves it: no client, no session.
NoSessions == [clients |-> {}, sessions |-> << >>]

NoTyping ==
    [pc |-> "idle", typingDelay |-> 0, intervals |-> 0, i |-> 0,
     events |-> << >>, failed |-> "none"]

\* Map.delete
Without(map, keys) == [k \in DOMAIN map \ keys |-> map[k]]

\* The arrays and entry objects still referenced, by the queue map or by a
\* processMessageQueue call in progress; the others are garbage.
LiveArrays(arrs, queues, drs) ==
    LET live == { queues[u] : u \in DOMAIN queues }
                  \cup { drs[p].queue : p \in { q \in DOMAIN drs : drs[q].pc # "idle" } }
    IN  [a \in DOMAIN arrs \cap live |-> arrs[a]]

LiveEntries(ents, arrs, drs) ==
    LET live == UNION { { arrs[a][k] : k \in 1..Len(arrs[a]) } : a \in DOMAIN arrs }
                  \cup { drs[p].message : p \in { q \in DOMAIN drs : drs[q].pc # "idle" } }
    IN  [m \in DOMAIN ents \cap live |-> ents[m]]

\* The queue state after an operation left it as (queues, arrs, ents, drs).
QueueState(queues, arrs, ents, drs) ==
    /\ messageQueues' = queues
    /\ drains' = drs
    /\ arrays' = LiveArrays(arrs, queues, drs)
    /\ entries' = LiveEntries(ents, LiveArrays(arrs, queues, drs), drs)

ResetUserLimits(userId) ==
    /\ userBuckets' = Without(userBuckets, {userId})
    /\ QueueState(Without(messageQueues, {userId}), arrays, entries, drains)
    /\ UNCHANGED <<clockVars, limits, lastCall, nextId, delivered, handlerVars>>

\* { ...this.limits, ...newLimits }
updateLimits(lim, newLimits) ==
    [f \in DOMAIN lim \cup DOMAIN newLimits |->
        IF f \in DOMAIN newLimits THEN newLimits[f] ELSE lim[f]]

\* Records a caller passes to updateLimits here: a partial record and a
\* record with a negative value (updateLimits checks nothing).
UpdateInputs ==
    { [messagesPerHour |-> 1],
      [burstLimit |-> 0 - 1] }

\* updateLimits that also cuts the existing buckets down to the new ceilings.
UpdateLimitsCuttingBuckets(newLimits) ==
    /\ limits' = updateLimits(limits, newLimits)
    /\ userBuckets' =
          [u \in DOMAIN userBuckets |->
              [userBuckets[u] EXCEPT
                  !.minuteTokens = Min(@, limits'.messagesPerMinute),
                  !.hourTokens = Min(@, limits'.messagesPerHour),
                  !.burstTokens = Min(@, limits'.burstLimit)]]
    /\ UNCHANGED <<clockVars, lastCall, queueVars, handlerVars>>

UpdateLimits(newLimits) ==
    /\ limits' = updateLimits(limits, newLimits)
    /\ UNCHANGED <<clockVars, userBuckets, lastCall, queueVars, handlerVars>>

\* serverLoad is given in hundredths: 0.8 is 80.
Loads == { 39, 40, 80, 81, 90 }

\* adaptiveLimits that takes the boundary loads 0.8 and 0.4 as high and low.
adaptiveLimitsInclusive(lim, serverLoad) ==
    IF serverLoad >= 80 THEN updateLimits(lim, HighLoadLimits)
    ELSE IF serverLoad <= 40 THEN updateLimits(lim, LowLoadLimits)
    ELSE lim

adaptiveLimits(lim, serverLoad) ==
    IF serverLoad > 80 THEN updateLimits(lim, HighLoadLimits)
    ELSE IF serverLoad < 40 THEN updateLimits(lim, LowLoadLimits)
    ELSE lim

AdaptiveLimits(serverLoad) ==
    /\ limits' = adaptiveLimits(limits, serverLoad)
    /\ UNCHANGED <<clockVars, userBuckets, lastCall, queueVars, handlerVars>>

EnableEmergencyMode ==
    /\ limits' = updateLimits(limits, EmergencyLimits)
    /\ UNCHANGED <<clockVars, userBuckets, lastCall, queueVars, handlerVars>>

\* disableEmergencyMode that restores the steady rates and leaves the burst.
DisableEmergencyModeKeepsBurst ==
    /\ limits' = updateLimits(limits, [messagesPerMinute |-> 2, messagesPerHour |-> 20])
    /\ UNCHANGED <<clockVars, userBuckets, lastCall, queueVars, handlerVars>>

DisableEmergencyMode ==
    /\ limits' = updateLimits(limits, DefaultLimits)
    /\ UNCHANGED <<clockVars, userBuckets, lastCall, queueVars, handlerVars>>

\* userId.includes(sessionId)
Includes(userId, sessionId) ==
    \E i \in 0..(Len(userId) - Len(sessionId)) :
        SubSeq(userId, i + 1, i + Len(sessionId)) = sessionId

\* A cleanup that also takes the buckets that are exactly bucketTimeout old.
cleanedBucketsInclusive(buckets, sessionId, t) ==
    { u \in DOMAIN buckets :
        \/ sessionId # NoScope /\ Includes(u, sessionId)
        \/ t - buckets[u].lastActivity >= bucketTimeout }

\* The buckets the first loop of cleanup deletes; it counts each of them in
\* cleanedBuckets.
cleanedBuckets(buckets, sessionId, t) ==
    { u \in DOMAIN buckets :
        \/ sessionId # NoScope /\ Includes(u, sessionId)
        \/ t - buckets[u].lastActivity > bucketTimeout }

cleanupBuckets(buckets, sessionId, t) ==
    Without(buckets, cleanedBuckets(buckets, sessionId, t))

\* A cleanup that judges a queue by its oldest entry.
cleanupQueuesByOldest(queues, arrs, ents, sessionId, t) ==
    LET gone == { u \in DOMAIN queues :
                    LET queue == arrs[queues[u]]
                    IN  \/ sessionId # NoScope /\ Includes(u, sessionId)
                        \/ Len(queue) = 0
                        \/ /\ Len(queue) > 0
                           /\ t - ents[queue[1]].queuedAt > bucketTimeout }
    IN  Without(queues, gone)

cleanupQueues(queues, arrs, ents, sessionId, t) ==
    LET gone == { u \in DOMAIN queues :
                    LET queue == arrs[queues[u]]
                    IN  \/ sessionId # NoScope /\ Includes(u, sessionId)
                        \/ Len(queue) = 0
                        \/ /\ Len(queue) > 0
                           /\ t - ents[queue[Len(queue)]].queuedAt > bucketTimeout }
    IN  Without(queues, gone)

\* cleanup(sessionId), also what the five-minute timer runs with no scope.
Cleanup(sessionId) ==
    /\ userBuckets' = cleanupBuckets(userBuckets, sessionId, now)
    /\ QueueState(cleanupQueues(messageQueues, arrays, entries, sessionId, now),
                  arrays, entries, drains)
    /\ UNCHANGED <<clockVars, limits, lastCall, nextId, delivered, handlerVars>>

-----------------------------------------------------------------------------
(* Delivery queues *)

\* The reference of an array created by "[]": the first one not in use.
NewArray ==
    CHOOSE n \in 1..(Cardinality(DOMAIN arrays) + 1) :
        /\ n \notin DOMAIN arrays
        /\ \A m \in 1..(n - 1) : m \in DOMAIN arrays

\* queueMessage that drops the oldest entry only when the queue is over capacity.
QueueMessageLateShift(userId) ==
    LET has == userId \in DOMAIN messageQueues
        q == IF has THEN messageQueues[userId] ELSE NewArray
        queue == IF has THEN arrays[q] ELSE <<>>
        kept == IF Len(queue) > QueueCapacity THEN Tail(queue) ELSE queue
    IN  /\ nextId <= MaxMessages
        /\ nextId' = nextId + 1
        /\ QueueState((userId :> q) @@ messageQueues,
                      (q :> Append(kept, nextId)) @@ arrays,
                      (nextId :> [queuedAt |-> now, retryCount |-> 0]) @@ entries,
                      drains)
        /\ UNCHANGED <<clockVars, ledgerVars, delivered, handlerVars>>

\* queueMessage(userId, messageData); the message is nextId.
QueueMessage(userId) ==
    LET has == userId \in DOMAIN messageQueues
        q == IF has THEN messageQueues[userId] ELSE NewArray
        queue == IF has THEN arrays[q] ELSE <<>>
        kept == IF Len(queue) >= QueueCapacity THEN Tail(queue) ELSE queue
    IN  /\ nextId <= MaxMessages
        /\ nextId' = nextId + 1
        /\ QueueState((userId :> q) @@ messageQueues,
                      (q :> Append(kept, nextId)) @@ arrays,
                      (nextId :> [queuedAt |-> now, retryCount |-> 0]) @@ entries,
                      drains)
        /\ UNCHANGED <<clockVars, ledgerVars, delivered, handlerVars>>

\* queue.splice(i, 1), i counted from 0
RemoveAt(queue, i) ==
    IF i + 1 <= Len(queue)
    THEN SubSeq(queue, 1, i) \o SubSeq(queue, i + 2, Len(queue))
    ELSE queue

\* The splices of processedMessages, last index first.
RECURSIVE SpliceAll(_, _)
SpliceAll(queue, processedMessages) ==
    IF processedMessages = <<>>
    THEN queue
    ELSE SpliceAll(RemoveAt(queue, processedMessages[Len(processedMessages)]),
                   SubSeq(processedMessages, 1, Len(processedMessages) - 1))

\* A return that leaves an emptied array in the map.
DrainReturnKeepsEmpty(p, userId, q, processedMessages, ents) ==
    LET rest == SpliceAll(arrays[q], processedMessages)
    IN  QueueState(messageQueues,
                   [arrays EXCEPT ![q] = rest],
                   ents,
                   [drains EXCEPT ![p] = NoDrain])

\* processMessageQueue after its loop: the splices, the removal of the
\* identity's queue from the map if the array is empty, the return.
DrainReturn(p, userId, q, processedMessages, ents) ==
    LET rest == SpliceAll(arrays[q], processedMessages)
    IN  QueueState(IF Len(rest) = 0
                      THEN Without(messageQueues, {userId})
                      ELSE messageQueues,
                   [arrays EXCEPT ![q] = rest],
                   ents,
                   [drains EXCEPT ![p] = NoDrain])

\* A loop that removes the entry it was denied for.
DrainLoopDropsDenied(p, userId, q, i, processedMessages, ents) ==
    IF i < Len(arrays[q])
    THEN LET r == checkLimit(userBuckets, limits, userId, now)
         IN  /\ MayRequest(userId)
             /\ userBuckets' = r.buckets
             /\ lastCall' = [lastCall EXCEPT ![userId] = Called(r)]
             /\ IF r.result
                THEN QueueState(messageQueues, arrays, ents,
                                [drains EXCEPT ![p] =
                                    [pc |-> "sending", userId |-> userId,
                                     queue |-> q, i |-> i,
                                     message |-> arrays[q][i + 1],
                                     processedMessages |-> processedMessages]])
                ELSE DrainReturn(p, userId, q, Append(processedMessages, i), ents)
    ELSE /\ UNCHANGED <<userBuckets, lastCall>>
         /\ DrainReturn(p, userId, q, processedMessages, ents)

\* A loop that passes an entry to the send function whether or not
\* checkLimit admitted it.
DrainLoopSendsDenied(p, userId, q, i, processedMessages, ents) ==
    IF i < Len(arrays[q])
    THEN LET r == checkLimit(userBuckets, limits, userId, now)
         IN  /\ MayRequest(userId)
             /\ userBuckets' = r.buckets
             /\ lastCall' = [lastCall EXCEPT ![userId] = Called(r)]
             /\ QueueState(messageQueues, arrays, ents,
                           [drains EXCEPT ![p] =
                               [pc |-> "sending", userId |-> userId,
                                queue |-> q, i |-> i,
                                message |-> arrays[q][i + 1],
                                processedMessages |-> processedMessages]])
    ELSE /\ UNCHANGED <<userBuckets, lastCall>>
         /\ DrainReturn(p, userId, q, processedMessages, ents)

\* processMessageQueue from the loop test at index i: it runs until it is
\* suspended in "await sendFunction(message)" or returns.
DrainLoop(p, userId, q, i, processedMessages, ents) ==
    IF i < Len(arrays[q])
    THEN LET r == checkLimit(userBuckets, limits, userId, now)
         IN  /\ MayRequest(userId)
             /\ userBuckets' = r.buckets
             /\ lastCall' = [lastCall EXCEPT ![userId] = Called(r)]
             /\ IF r.result
                THEN QueueState(messageQueues, arrays, ents,
                                [drains EXCEPT ![p] =
                                    [pc |-> "sending", userId |-> userId,
                                     queue |-> q, i |-> i,
                                     message |-> arrays[q][i + 1],
                                     processedMessages |-> processedMessages]])
                ELSE DrainReturn(p, userId, q, processedMessages, ents)
    ELSE /\ UNCHANGED <<userBuckets, lastCall>>
         /\ DrainReturn(p, userId, q, processedMessages, ents)

\* processMessageQueue(userId, sendFunction) is called.
ProcessMessageQueue(p, userId) ==
    /\ drains[p].pc = "idle"
    /\ userId \in DOMAIN messageQueues
    /\ Len(arrays[messageQueues[userId]]) > 0
    /\ DrainLoop(p, userId, messageQueues[userId], 0, <<>>, entries)
    /\ UNCHANGED <<clockVars, limits, nextId, delivered, handlerVars>>

\* A catch block that never gives an entry up.
SendFunctionSettlesNeverDrops(p, ok) ==
    LET d == drains[p]
        ents == IF ok
                THEN entries
                ELSE [entries EXCEPT ![d.message].retryCount = @ + 1]
        processedMessages ==
            IF ok THEN Append(d.processedMessages, d.i) ELSE d.processedMessages
    IN  /\ d.pc = "sending"
        /\ delivered' = IF ok
                        THEN [delivered EXCEPT ![d.userId] = Append(@, d.message)]
                        ELSE delivered
        /\ DrainLoop(p, d.userId, d.queue, d.i + 1, processedMessages, ents)
        /\ UNCHANGED <<clockVars, limits, nextId, handlerVars>>

\* sendFunction(message) settles: it has sent the message (ok) or it throws.
SendFunctionSettles(p, ok) ==
    LET d == drains[p]
        ents == IF ok
                THEN entries
                ELSE [entries EXCEPT ![d.message].retryCount = @ + 1]
        processedMessages ==
            IF ok \/ ents[d.message].retryCount >= MaxRetries
            THEN Append(d.processedMessages, d.i)
            ELSE d.processedMessages
    IN  /\ d.pc = "sending"
        /\ delivered' = IF ok
                        THEN [delivered EXCEPT ![d.userId] = Append(@, d.message)]
                        ELSE delivered
        /\ DrainLoop(p, d.userId, d.queue, d.i + 1, processedMessages, ents)
        /\ UNCHANGED <<clockVars, limits, nextId, handlerVars>>

-----------------------------------------------------------------------------
(* The message handler of the session manager *)

\* sendTypingMessage(clientId, chat, text) goes through or throws, in a
\* presence call (before chat.sendMessage) or in chat.sendMessage itself.
TypingOutcomes == { "sent", "presence_error", "send_error" }

\* The texts sendTypingMessage passes to chat.sendMessage, and whether it throws.
sendTypingMessage(text, outcome) ==
    [sendMessage |-> IF outcome = "presence_error" THEN <<>> ELSE <<text>>,
     threw |-> outcome # "sent"]

\* What happens before the reply is sent: getChat or getContact throws
\* ("no_chat"), the history store or the AI service throws ("error"), the
\* AI service returns nothing ("empty") or a reply ("reply").
Inbound == { "no_chat", "error", "empty", "reply" }

\* The catch block: the fallback message, whose own failure is logged.
fallbackMessage(outcome) == sendTypingMessage("fallback", outcome).sendMessage

\* processIncomingMessage(clientId, message), message.from being senderId.
ProcessIncomingMessage(senderId, inbound, first, second) ==
    LET r == checkLimit(userBuckets, limits, senderId, now)
        notice == sendTypingMessage("rate_limit_notice", first)
        reply == sendTypingMessage("reply", first)
    IN  /\ UNCHANGED <<clockVars, limits, queueVars, typing, typingDuration, autoReply,
                     manager>>
        /\ IF inbound = "no_chat"
           THEN /\ UNCHANGED <<userBuckets, lastCall>>
                /\ lastInbound' = [from |-> senderId, admitted |-> FALSE,
                                   checked |-> FALSE,
                                   sendMessage |-> fallbackMessage(second)]
           ELSE /\ MayRequest(senderId)
                /\ userBuckets' = r.buckets
                /\ lastCall' = [lastCall EXCEPT ![senderId] = Called(r)]
                /\ lastInbound' =
                      [from |-> senderId, admitted |-> r.result, checked |-> TRUE,
                       sendMessage |->
                         IF ~r.result
                         THEN notice.sendMessage \o
                              (IF notice.threw THEN fallbackMessage(second) ELSE <<>>)
                         ELSE IF inbound = "error" THEN fallbackMessage(second)
                         ELSE IF inbound = "empty" THEN <<>>
                         ELSE reply.sendMessage \o
                              (IF reply.threw THEN fallbackMessage(second) ELSE <<>>)]

\* The clock moves on by d milliseconds.
Tick(d) ==
    /\ ticks < MaxTicks
    /\ now' = now + d
    /\ ticks' = ticks + 1
    /\ UNCHANGED <<ledgerVars, queueVars, handlerVars>>

-----------------------------------------------------------------------------
(* The ledger under every operation that touches buckets or the tier *)

\* new RateLimiter(): no bucket, no queue, nothing in progress.
InitEmpty ==
    /\ now = 0
    /\ ticks = 0
    /\ userBuckets = <<>>
    /\ lastCall = [u \in Users |-> NoCall]
    /\ messageQueues = <<>>
    /\ arrays = <<>>
    /\ entries = <<>>
    /\ nextId = 1
    /\ drains = [p \in Procs |-> NoDrain]
    /\ delivered = [u \in Users |-> <<>>]
    /\ lastInbound = NoInbound
    /\ typing = NoTyping
    /\ typingDuration = 0
    /\ autoReply = NoAutoReply
    /\ manager = NoSessions

Init ==
    /\ InitEmpty
    /\ limits = DefaultLimits

LedgerSteps == { MinuteMs, HourMs }
LedgerUsers == { <<"a", "1">> }
LedgerTiers == { "basic" }
LedgerScopes == { NoScope, <<"a">> }
LedgerLoads == { 40, 81 }

Next ==
    \/ \E u \in LedgerUsers : CheckLimit(u)
    \/ \E u \in LedgerUsers : GetUserStatus(u)
    \/ \E u \in LedgerUsers, tier \in LedgerTiers : CheckAdvancedLimit(u, tier)
    \/ \E u \in LedgerUsers : ResetUserLimits(u)
    \/ \E nl \in UpdateInputs : UpdateLimits(nl)
    \/ \E load \in LedgerLoads : AdaptiveLimits(load)
    \/ EnableEmergencyMode
    \/ DisableEmergencyMode
    \/ \E s \in LedgerScopes : Cleanup(s)
    \/ \E d \in LedgerSteps : Tick(d)

Spec == Init /\ [][Next]_vars

-----------------------------------------------------------------------------
(* Status reads alone, for two identities *)

NextStatus ==
    \/ \E u \in Users : GetUserStatus(u)
    \/ \E d \in LedgerSteps : Tick(d)
    \/ EnableEmergencyMode
    \/ DisableEmergencyMode

SpecStatus == Init /\ [][NextStatus]_vars

-----------------------------------------------------------------------------
(* Fresh identities under one fixed tier, with the clock standing still *)

FreshTiers ==
    { DefaultLimits, HighLoadLimits, LowLoadLimits, EmergencyLimits,
      getTierLimits("basic"), getTierLimits("premium") }

InitFresh ==
    /\ InitEmpty
    /\ limits \in FreshTiers

NextFresh == \E u \in Users : CheckLimit(u)

SpecFresh == InitFresh /\ [][NextFresh]_vars

-----------------------------------------------------------------------------
(* One identity under the default tier, the clock moving in steps of half a *)
(* second, one second, 59 seconds and 60 seconds                           *)

MinuteSteps == { 500, 1000, 59 * 1000, MinuteMs }

NextMinute ==
    \/ \E u \in LedgerUsers : CheckLimit(u)
    \/ \E d \in MinuteSteps : Tick(d)

SpecMinute == Init /\ [][NextMinute]_vars

-----------------------------------------------------------------------------
(* One identity's queue, filled and drained by one processMessageQueue call *)
(* at a time                                                               *)

QueueUsers == { <<"a", "1">> }
QueueProcs == { 1 }
QueueSteps == { MinuteMs, HourMs }

NextQueue ==
    \/ \E u \in QueueUsers : QueueMessage(u)
    \/ \E p \in QueueProcs, u \in QueueUsers : ProcessMessageQueue(p, u)
    \/ \E p \in QueueProcs, ok \in BOOLEAN : SendFunctionSettles(p, ok)
    \/ \E d \in QueueSteps : Tick(d)

SpecQueue == Init /\ [][NextQueue]_vars

-----------------------------------------------------------------------------
(* Inbound messages of one identity *)

HandlerUsers == { <<"a", "1">> }

NextHandler ==
    \/ \E u \in HandlerUsers, inbound \in Inbound, first \in TypingOutcomes,
          second \in TypingOutcomes :
            ProcessIncomingMessage(u, inbound, first, second)
    \/ \E d \in LedgerSteps : Tick(d)

SpecHandler == Init /\ [][NextHandler]_vars

-----------------------------------------------------------------------------
(* Claims about the token counts *)

\* C1: in every reachable state every bucket's minuteTokens, hourTokens and
\* burstTokens are >= 0.
C1_TokensNeverNegative ==
    \A u \in DOMAIN userBuckets :
        /\ userBuckets[u].minuteTokens >= 0
        /\ userBuckets[u].hourTokens >= 0
        /\ userBuckets[u].burstTokens >= 0

\* C2: in every reachable state every bucket's token counts are at most the
\* ceilings of the active configuration, also after the active
\* configuration has been lowered.
C2_TokensWithinActiveCeilings ==
    \A u \in DOMAIN userBuckets :
        /\ userBuckets[u].minuteTokens <= limits.messagesPerMinute
        /\ userBuckets[u].hourTokens <= limits.messagesPerHour
        /\ userBuckets[u].burstTokens <= limits.burstLimit

\* The bucket of userId as checkLimit sees it after getUserBucket: created
\* if absent, refilled.
Refilled(userId) == getUserBucket(userBuckets, limits, userId, now)[userId]

SameTokens(a, b) ==
    /\ a.minuteTokens = b.minuteTokens
    /\ a.hourTokens = b.hourTokens
    /\ a.burstTokens = b.burstTokens

BurstOnly(a, b) ==
    /\ a.burstTokens = b.burstTokens - 1
    /\ a.minuteTokens = b.minuteTokens
    /\ a.hourTokens = b.hourTokens

SteadyOnly(a, b) ==
    /\ a.burstTokens = b.burstTokens
    /\ a.minuteTokens = b.minuteTokens - 1
    /\ a.hourTokens = b.hourTokens - 1

\* The messages of userId's queue that sendFunction has not sent.
Undelivered(u) ==
    IF u \in DOMAIN messageQueues
    THEN { arrays[messageQueues[u]][k] : k \in 1..Len(arrays[messageQueues[u]]) }
            \ { delivered[u][j] : j \in 1..Len(delivered[u]) }
    ELSE {}

\* C3: for one identity no message is sent successfully before a message
\* that was enqueued earlier and is still in the queue (message ids are
\* given in enqueue order).
C3_SentInEnqueueOrder ==
    \A u \in Users :
        \A j \in 1..Len(delivered[u]) :
            \A m \in Undelivered(u) : delivered[u][j] < m

\* C4: when checkLimit denies the sender of an inbound message, the handler
\* puts the reply into the sender's queue and makes no call of the outbound
\* send for that inbound message.
C4_DeniedIsQueuedNotSent ==
    [][\A u \in Users, inbound \in Inbound, first \in TypingOutcomes,
         second \in TypingOutcomes :
        (/\ ProcessIncomingMessage(u, inbound, first, second)
         /\ lastInbound'.checked
         /\ ~lastInbound'.admitted) =>
            /\ lastInbound'.sendMessage = <<>>
            /\ nextId' = nextId + 1
            /\ u \in DOMAIN messageQueues'
            /\ arrays'[messageQueues'[u]][Len(arrays'[messageQueues'[u]])] = nextId]_vars

\* C5: getUserStatus refills the bucket and changes nothing else in it: it
\* consumes no token and leaves totalRequests and blockedRequests alone.
C5_StatusOnlyRefills ==
    [][\A u \in Users :
        GetUserStatus(u) => userBuckets'[u] = Refilled(u)]_vars

\* C6: for a fresh identity under a tier with burstLimit B and no time
\* elapsing, each of the first B checkLimit calls is admitted and takes 1 from
\* burstTokens only, minuteTokens and hourTokens staying at their ceilings;
\* call B+1 is admitted and takes 1 from minuteTokens and 1 from hourTokens.
C6_FreshBurstFirst ==
    \A u \in DOMAIN userBuckets :
        LET b == userBuckets[u]
            k == b.totalRequests
        IN  /\ (k >= 1 /\ k <= limits.burstLimit) =>
                  /\ lastCall[u] = [result |-> TRUE, log |-> "burst"]
                  /\ b.burstTokens = limits.burstLimit - k
                  /\ b.minuteTokens = limits.messagesPerMinute
                  /\ b.hourTokens = limits.messagesPerHour
            /\ k = limits.burstLimit + 1 =>
                  /\ lastCall[u] = [result |-> TRUE, log |-> "token"]
                  /\ b.burstTokens = 0
                  /\ b.minuteTokens = limits.messagesPerMinute - 1
                  /\ b.hourTokens = limits.messagesPerHour - 1

\* Under the default tier (B = 3) an identity has made its fourth call.
C6_Witness ==
    /\ limits = DefaultLimits
    /\ \E u \in DOMAIN userBuckets :
          /\ userBuckets[u].totalRequests = 4
          /\ userBuckets[u].createdAt = now
          /\ lastCall[u].result

\* C7: checkLimit admits if, after the refill, burstTokens > 0; otherwise it
\* admits if and only if minuteTokens > 0 and hourTokens > 0.
C7_Decision ==
    [][\A u \in Users :
        CheckLimit(u) =>
            (lastCall'[u].result <=>
                \/ Refilled(u).burstTokens > 0
                \/ /\ Refilled(u).minuteTokens > 0
                   /\ Refilled(u).hourTokens > 0)]_vars

\* A call was denied because the hour pool was empty while the minute pool
\* was not.
C7_Witness ==
    \E u \in DOMAIN userBuckets :
        /\ lastCall[u].log = "hour_exceeded"
        /\ userBuckets[u].minuteTokens > 0
        /\ userBuckets[u].hourTokens = 0
        /\ userBuckets[u].burstTokens = 0

\* C8 as stated: comparing the bucket before and after the call, an admitted
\* checkLimit takes exactly 1 from burstTokens alone or from minuteTokens and
\* hourTokens together, and a denied checkLimit leaves the three counts as
\* they were.
C8_AgainstBucketBeforeCall ==
    [][\A u \in DOMAIN userBuckets :
        CheckLimit(u) =>
            IF lastCall'[u].result
            THEN \/ BurstOnly(userBuckets'[u], userBuckets[u])
                 \/ SteadyOnly(userBuckets'[u], userBuckets[u])
            ELSE SameTokens(userBuckets'[u], userBuckets[u])]_vars

\* C8 amended: comparing the bucket as refilled at the start of the call with
\* the bucket after it, an admitted checkLimit takes exactly 1 from
\* burstTokens alone or from minuteTokens and hourTokens together, and a
\* denied checkLimit leaves the three counts as the refill set them.
C8_AgainstRefilledBucket ==
    [][\A u \in Users :
        CheckLimit(u) =>
            IF lastCall'[u].result
            THEN \/ BurstOnly(userBuckets'[u], Refilled(u))
                 \/ SteadyOnly(userBuckets'[u], Refilled(u))
            ELSE SameTokens(userBuckets'[u], Refilled(u))]_vars

\* A denied call whose refill had changed the bucket's minute pool.
C8_Witness ==
    \E u \in DOMAIN userBuckets :
        /\ ~lastCall[u].result
        /\ lastCall[u].log = "hour_exceeded"
        /\ userBuckets[u].minuteRefillTime > userBuckets[u].createdAt
        /\ userBuckets[u].lastActivity = userBuckets[u].minuteRefillTime

\* C9: every checkLimit adds exactly 1 to totalRequests, and 1 to
\* blockedRequests if and only if it denies; while a bucket exists neither
\* counter decreases, and blockedRequests <= totalRequests.
C9_Counters ==
    [][\A u \in Users :
        /\ CheckLimit(u) =>
              /\ userBuckets'[u].totalRequests = Refilled(u).totalRequests + 1
              /\ userBuckets'[u].blockedRequests =
                    Refilled(u).blockedRequests
                        + (IF lastCall'[u].result THEN 0 ELSE 1)
        /\ (u \in DOMAIN userBuckets /\ u \in DOMAIN userBuckets') =>
              /\ userBuckets'[u].totalRequests >= userBuckets[u].totalRequests
              /\ userBuckets'[u].blockedRequests >= userBuckets[u].blockedRequests
        /\ u \in DOMAIN userBuckets' =>
              userBuckets'[u].blockedRequests <= userBuckets'[u].totalRequests]_vars

\* A bucket that has been both admitted and denied.
C9_Witness ==
    \E u \in DOMAIN userBuckets :
        /\ userBuckets[u].blockedRequests >= 1
        /\ userBuckets[u].totalRequests > userBuckets[u].blockedRequests
        /\ lastCall[u].log \in { "minute_exceeded", "hour_exceeded" }

\* The last consumeToken of userId took its last minute token: the burst and
\* minute pools are empty, the hour pool is not, and the time of that call is
\* the bucket's lastActivity.
SpentLastMinuteToken(u) ==
    /\ u \in DOMAIN userBuckets
    /\ lastCall[u].log = "token"
    /\ userBuckets[u].burstTokens = 0
    /\ userBuckets[u].minuteTokens = 0
    /\ userBuckets[u].hourTokens > 0

\* C10 as stated: with messagesPerMinute = 2, the next checkLimit after the
\* last minute token was consumed at time T is denied at T + 59 s and admitted
\* at T + 60 s, wherever the bucket's refill boundary lies.
C10_AsStated ==
    [][\A u \in Users :
        (/\ CheckLimit(u)
         /\ limits.messagesPerMinute = 2
         /\ SpentLastMinuteToken(u)) =>
            LET T == userBuckets[u].lastActivity
            IN  /\ now = T + 59 * 1000 => ~lastCall'[u].result
                /\ now = T + MinuteMs => lastCall'[u].result]_vars

\* C10 amended: at T + 59 s the call is denied when the bucket's minute
\* refill boundary lies less than one second before T and admitted when it
\* lies one second or more before T; at T + 60 s the call is admitted
\* wherever the boundary lies.
C10_BoundaryDecides ==
    [][\A u \in Users :
        (/\ CheckLimit(u)
         /\ limits.messagesPerMinute = 2
         /\ SpentLastMinuteToken(u)) =>
            LET T == userBuckets[u].lastActivity
                boundary == userBuckets[u].minuteRefillTime
            IN  /\ now = T + 59 * 1000 =>
                      (lastCall'[u].result <=> boundary <= T - 1000)
                /\ now = T + MinuteMs => lastCall'[u].result]_vars

\* Five calls at the bucket's creation time took the burst and both minute
\* tokens, and the sixth call, 59 seconds later, was denied.
C10_Witness ==
    /\ ticks = 1
    /\ now = 59 * 1000
    /\ limits.messagesPerMinute = 2
    /\ \E u \in DOMAIN userBuckets :
          /\ userBuckets[u].createdAt = 0
          /\ userBuckets[u].totalRequests = 6
          /\ userBuckets[u].blockedRequests = 1
          /\ userBuckets[u].lastActivity = now
          /\ lastCall[u].log = "minute_exceeded"

-----------------------------------------------------------------------------
(* The refill, for one identity under one fixed tier, the clock moving in   *)
(* steps of half a minute, one and two minutes and half a minute less than *)
(* an hour                                                                  *)

HalfMinuteMs == 30 * 1000
RefillSteps == { HalfMinuteMs, MinuteMs, 2 * MinuteMs, HourMs - HalfMinuteMs }

NextRefill ==
    \/ \E u \in LedgerUsers : CheckLimit(u)
    \/ \E d \in RefillSteps : Tick(d)

SpecRefill == InitFresh /\ [][NextRefill]_vars

wholeMinutesElapsed(bucket, t) == (t - bucket.minuteRefillTime) \div MinuteMs
wholeHoursElapsed(bucket, t) == (t - bucket.hourRefillTime) \div HourMs

\* The three token counts the refill formulas give for a bucket at time t.
RefillFormula(bucket, lim, t) ==
    LET m == wholeMinutesElapsed(bucket, t)
        h == wholeHoursElapsed(bucket, t)
    IN  [bucket EXCEPT
            !.minuteTokens = IF m >= 1 THEN Min(lim.messagesPerMinute, @ + m) ELSE @,
            !.hourTokens = IF h >= 1
                           THEN Min(lim.messagesPerHour, @ + h * lim.messagesPerHour)
                           ELSE @,
            !.burstTokens = IF @ < lim.burstLimit /\ m >= 1
                            THEN Min(lim.burstLimit, @ + (m \div 2))
                            ELSE @]

\* C11 as stated: the refill before a checkLimit sets the three counts by
\* the formulas for the minute, hour and burst pools, and changes none of
\* them when less than one whole minute has elapsed.
C11_AsStated ==
    [][\A u \in DOMAIN userBuckets :
        CheckLimit(u) =>
            LET b == userBuckets[u]
                refilled == IF wholeMinutesElapsed(b, now) < 1
                            THEN b
                            ELSE RefillFormula(b, limits, now)
            IN  SameTokens(userBuckets'[u], consumeToken(refilled, now).bucket)]_vars

\* C11 amended: the refill before a checkLimit sets the three counts by the
\* formulas for the minute, hour and burst pools; with less than one whole
\* minute elapsed since the minute boundary it leaves minuteTokens and
\* burstTokens alone, but it still refills hourTokens when a whole hour has
\* elapsed since the hour boundary.
C11_RefillFormulas ==
    [][\A u \in DOMAIN userBuckets :
        CheckLimit(u) =>
            LET b == userBuckets[u]
            IN  SameTokens(userBuckets'[u],
                           consumeToken(RefillFormula(b, limits, now), now).bucket)]_vars

\* A checkLimit has refilled the hour pool less than a minute after the
\* bucket's minute boundary.
C11_Witness ==
    \E u \in DOMAIN userBuckets :
        /\ userBuckets[u].lastActivity = now
        /\ userBuckets[u].hourRefillTime = now
        /\ userBuckets[u].minuteRefillTime < now
        /\ now - userBuckets[u].minuteRefillTime < MinuteMs
        /\ userBuckets[u].createdAt < userBuckets[u].minuteRefillTime

-----------------------------------------------------------------------------
(* One identity's queue that already holds one entry less than its          *)
(* capacity, filled further and drained                                     *)

\* The entries queued earlier: the messages 1 - Backlog .. 0, oldest first.
Backlog == QueueCapacity - 1
BacklogQueue == [k \in 1..Backlog |-> k - Backlog]

\* How many of the oldest entries have already failed twice, in earlier
\* drain passes that had two tokens each.
BacklogFailed == { 0, MaxRetries - 1 }

InitBacklog ==
    /\ now = 0
    /\ ticks = 0
    /\ limits = DefaultLimits
    /\ userBuckets = <<>>
    /\ lastCall = [u \in Users |-> NoCall]
    /\ messageQueues = (<<"a", "1">> :> 1)
    /\ arrays = (1 :> BacklogQueue)
    /\ \E failed \in BacklogFailed :
          entries = [m \in (1 - Backlog)..0 |->
                        [queuedAt |-> 0,
                         retryCount |-> IF m <= failed - Backlog
                                        THEN MaxRetries - 1 ELSE 0]]
    /\ nextId = 1
    /\ drains = [p \in Procs |-> NoDrain]
    /\ delivered = [u \in Users |-> <<>>]
    /\ lastInbound = NoInbound
    /\ typing = NoTyping
    /\ typingDuration = 0
    /\ autoReply = NoAutoReply
    /\ manager = NoSessions

\* The clock stands still.
NextBacklog ==
    \/ \E u \in QueueUsers : QueueMessage(u)
    \/ \E p \in QueueProcs, u \in QueueUsers : ProcessMessageQueue(p, u)
    \/ \E p \in QueueProcs, ok \in BOOLEAN : SendFunctionSettles(p, ok)

SpecBacklog == InitBacklog /\ [][NextBacklog]_vars

\* The array of userId's queue.
QueueOf(queues, arrs, userId) == arrs[queues[userId]]

\* C12: an identity's queue never holds more than 10 entries, and
\* queueMessage on a queue of length 10 leaves entries 2..10 in their order,
\* each as it was, followed by the new entry with retryCount 0.
C12_QueueCapacity ==
    /\ [](\A u \in DOMAIN messageQueues :
            Len(QueueOf(messageQueues, arrays, u)) <= QueueCapacity)
    /\ [][\A u \in DOMAIN messageQueues :
            (/\ QueueMessage(u)
             /\ Len(QueueOf(messageQueues, arrays, u)) = QueueCapacity) =>
                LET before == QueueOf(messageQueues, arrays, u)
                    after == QueueOf(messageQueues', arrays', u)
                IN  /\ after = Append(Tail(before), nextId)
                    /\ \A k \in 1..Len(Tail(before)) :
                          entries'[after[k]] = entries[before[k + 1]]
                    /\ entries'[nextId].retryCount = 0]_vars

\* The queue is full, its oldest entries have been pushed out and its newest
\* entry is the message queued last.
C12_Witness ==
    \E u \in DOMAIN messageQueues :
        LET queue == QueueOf(messageQueues, arrays, u)
        IN  /\ Len(queue) = QueueCapacity
            /\ queue[1] > 1 - Backlog
            /\ queue[Len(queue)] = nextId - 1
            /\ nextId > 2

-----------------------------------------------------------------------------
(* One identity's queue with up to two processMessageQueue calls in         *)
(* progress at once, the clock standing still                               *)

NextOverlap ==
    \/ \E u \in QueueUsers : QueueMessage(u)
    \/ \E p \in Procs, u \in QueueUsers : ProcessMessageQueue(p, u)
    \/ \E p \in Procs, ok \in BOOLEAN : SendFunctionSettles(p, ok)

SpecOverlap == Init /\ [][NextOverlap]_vars

\* The entries of the queues in the map.
Queued ==
    UNION { { QueueOf(messageQueues, arrays, u)[k] :
                k \in 1..Len(QueueOf(messageQueues, arrays, u)) } :
            u \in DOMAIN messageQueues }

\* No processMessageQueue call is in progress.
Quiescent == \A p \in Procs : drains[p].pc = "idle"

\* C13: no entry is passed to the send function after it has failed 3 times,
\* and between drain passes the retryCount of every entry in a queue is in
\* 0..2 (an entry is removed in the pass of its third failure).
C13_RetryCap ==
    /\ [][\A p \in Procs :
            (drains'[p].pc = "sending" /\ drains'[p] # drains[p]) =>
                entries'[drains'[p].message].retryCount < MaxRetries]_vars
    /\ [](Quiescent => \A m \in Queued : entries[m].retryCount \in 0..(MaxRetries - 1))

\* The step contains a checkLimit(userId) that denied.
DeniedStep(userId) ==
    /\ userId \in DOMAIN userBuckets
    /\ userBuckets'[userId].blockedRequests = userBuckets[userId].blockedRequests + 1

\* The pass of call p ends in this step without passing an entry to the send
\* function.
PassEnds(p) ==
    /\ drains'[p].pc = "idle"
    /\ delivered' = delivered \/ drains[p].pc = "sending"

\* The entries of userId's queue from index i on (counted from 0) are the
\* tail of the queue after the step, each as it was.
RestStays(userId, i) ==
    LET queue == QueueOf(messageQueues, arrays, userId)
        rest == SubSeq(queue, i + 1, Len(queue))
    IN  /\ userId \in DOMAIN messageQueues'
        /\ messageQueues'[userId] = messageQueues[userId]
        /\ LET after == QueueOf(messageQueues', arrays', userId)
           IN  /\ Len(after) >= Len(rest)
               /\ SubSeq(after, Len(after) - Len(rest) + 1, Len(after)) = rest
        /\ \A k \in 1..Len(rest) : entries'[rest[k]] = entries[rest[k]]

\* C14: when checkLimit denies during a drain pass over an identity's queue,
\* the pass stops at that entry: it passes neither that entry nor a later
\* one to the send function, and those entries stay in the queue in their
\* order with their retryCount.
C14_StopsOnDenial ==
    [][\A p \in Procs, u \in Users :
        /\ (ProcessMessageQueue(p, u) /\ DeniedStep(u)) =>
              /\ PassEnds(p)
              /\ RestStays(u, 0)
        /\ (/\ drains[p].pc = "sending"
            /\ drains[p].userId = u
            /\ \E ok \in BOOLEAN : SendFunctionSettles(p, ok)
            /\ DeniedStep(u)) =>
              /\ PassEnds(p)
              /\ (u \in DOMAIN messageQueues /\ messageQueues[u] = drains[p].queue) =>
                    RestStays(u, drains[p].i + 1)]_vars

\* A pass was stopped by a denial after at least one send, and left entries
\* in the queue.
C14_Witness ==
    /\ Quiescent
    /\ \E u \in DOMAIN messageQueues :
          /\ u \in DOMAIN userBuckets
          /\ ~lastCall[u].result
          /\ lastCall[u].log = "minute_exceeded"
          /\ userBuckets[u].blockedRequests >= 1
          /\ userBuckets[u].totalRequests > userBuckets[u].blockedRequests
          /\ Len(QueueOf(messageQueues, arrays, u)) >= 1

-----------------------------------------------------------------------------
(* One identity's queue drained by a timer: a pass starts when a minute has *)
(* gone by since the identity's last check, every send settles, and the    *)
(* clock moves on to the next pass                                          *)

\* As many entries as can each be tried three times within MaxRequests.
LiveBacklog == MaxRequests \div MaxRetries
LiveMessages == (1 - LiveBacklog)..0

\* Tiers whose refill gives each pass a token for every entry.
LiveTiers == { DefaultLimits, LowLoadLimits, getTierLimits("premium") }

InitLive ==
    /\ now = 0
    /\ ticks = 0
    /\ limits \in LiveTiers
    /\ userBuckets = <<>>
    /\ lastCall = [u \in Users |-> NoCall]
    /\ messageQueues = (<<"a", "1">> :> 1)
    /\ arrays = (1 :> [k \in 1..LiveBacklog |-> k - LiveBacklog])
    /\ entries = [m \in LiveMessages |-> [queuedAt |-> 0, retryCount |-> 0]]
    /\ nextId = 1
    /\ drains = [p \in Procs |-> NoDrain]
    /\ delivered = [u \in Users |-> <<>>]
    /\ lastInbound = NoInbound
    /\ typing = NoTyping
    /\ typingDuration = 0
    /\ autoReply = NoAutoReply
    /\ manager = NoSessions

\* The timer's next pass for userId is due.
Due(userId) ==
    userId \in DOMAIN userBuckets => now - userBuckets[userId].lastActivity >= MinuteMs

TimerPass(p, userId) ==
    /\ Due(userId)
    /\ ProcessMessageQueue(p, userId)

Settles(p) == \E ok \in BOOLEAN : SendFunctionSettles(p, ok)

\* The time until the next pass goes by.
TimerWait(userId) ==
    /\ ~Due(userId)
    /\ \A p \in Procs : drains[p].pc = "idle"
    /\ userId \in DOMAIN messageQueues
    /\ Tick(MinuteMs)

NextLive ==
    \/ \E p \in QueueProcs, u \in QueueUsers : TimerPass(p, u)
    \/ \E p \in QueueProcs : Settles(p)
    \/ \E u \in QueueUsers : TimerWait(u)

SpecLive ==
    /\ InitLive
    /\ [][NextLive]_vars
    /\ \A p \in QueueProcs :
          /\ WF_vars(Settles(p))
          /\ \A u \in QueueUsers : WF_vars(TimerPass(p, u))
    /\ \A u \in QueueUsers : WF_vars(TimerWait(u))

\* C15: with processMessageQueue invoked again and again while the clock
\* advances, every entry in the queue eventually leaves it, whatever its
\* sends do.
C15_EveryEntryLeaves == \A m \in LiveMessages : (m \in Queued) ~> (m \notin Queued)

\* The queue has emptied although an entry was never sent: it was given up
\* at its third failure, in a pass after the clock had advanced.
C15_Witness ==
    /\ ticks >= 1
    /\ \A p \in Procs : drains[p].pc = "idle"
    /\ \E u \in QueueUsers :
          /\ u \notin DOMAIN messageQueues
          /\ Len(delivered[u]) < LiveBacklog
          /\ u \in DOMAIN userBuckets
          /\ userBuckets[u].totalRequests >= MaxRetries
          /\ userBuckets[u].lastActivity = now

\* C16: the queue map holds no empty queue: once a pass has emptied an
\* identity's queue the identity has no entry in messageQueues, and every
\* queue in the map has length >= 1.
C16_NoEmptyQueue ==
    \A u \in DOMAIN messageQueues : Len(QueueOf(messageQueues, arrays, u)) >= 1

\* A pass has sent the last entry of the identity's queue and taken the queue
\* out of the map.
C16_Witness ==
    /\ Quiescent
    /\ nextId > 1
    /\ \E u \in QueueUsers :
          /\ u \notin DOMAIN messageQueues
          /\ Len(delivered[u]) >= 1

-----------------------------------------------------------------------------
(* The load and emergency operations, with one identity's bucket            *)

NextTier ==
    \/ \E load \in Loads : AdaptiveLimits(load)
    \/ EnableEmergencyMode
    \/ DisableEmergencyMode
    \/ \E u \in LedgerUsers : CheckLimit(u)
    \/ Tick(MinuteMs)

SpecTier == Init /\ [][NextTier]_vars

\* C17: adaptiveLimits(load) makes the reduced tier (1/min, 15/hour, burst 2)
\* the active tier when load > 0.8, the increased tier (3/min, 30/hour,
\* burst 4) when load < 0.4, and leaves the active tier as it is for every
\* load from 0.4 to 0.8, both included.
C17_AdaptiveBoundaries ==
    [][\A load \in Loads :
        AdaptiveLimits(load) =>
            limits' = IF load > 80
                      THEN [messagesPerMinute |-> 1, messagesPerHour |-> 15,
                            burstLimit |-> 2]
                      ELSE IF load < 40
                      THEN [messagesPerMinute |-> 3, messagesPerHour |-> 30,
                            burstLimit |-> 4]
                      ELSE limits]_vars

\* The increased tier is active.
C17_Witness ==
    limits = [messagesPerMinute |-> 3, messagesPerHour |-> 30, burstLimit |-> 4]

\* C18: from enableEmergencyMode until disableEmergencyMode the active tier
\* stays the emergency tier (1/min, 5/hour, burst 1): adaptiveLimits with
\* any load does not change it.  (Without an updateLimits call the
\* emergency tier is active only between those two calls.)
C18_EmergencyOverridesAdaptive ==
    [][\A load \in Loads :
        (/\ limits = [messagesPerMinute |-> 1, messagesPerHour |-> 5,
                      burstLimit |-> 1]
         /\ AdaptiveLimits(load)) => limits' = limits]_vars

\* The bucket's three counts are within the ceilings lim.
WithinCeilings(bucket, lim) ==
    /\ bucket.minuteTokens <= lim.messagesPerMinute
    /\ bucket.hourTokens <= lim.messagesPerHour
    /\ bucket.burstTokens <= lim.burstLimit

\* C19: once adaptiveLimits(0.9) has made the reduced tier active, a
\* checkLimit that refills an existing bucket (one whole minute or more
\* elapsed) leaves the bucket's burstTokens, minuteTokens and hourTokens each
\* at most the reduced tier's ceiling.
C19_ReducedCeilingsAfterRefill ==
    [][\A u \in DOMAIN userBuckets :
        (/\ limits = HighLoadLimits
         /\ wholeMinutesElapsed(userBuckets[u], now) >= 1
         /\ CheckLimit(u)) =>
            WithinCeilings(userBuckets'[u], HighLoadLimits)]_vars

-----------------------------------------------------------------------------
(* The four operations that set the tier, with one identity's bucket and    *)
(* queue in existence and the clock standing still                         *)

FrameLoads == { 39, 81 }

NextFrame ==
    \/ \E nl \in UpdateInputs : UpdateLimits(nl)
    \/ \E load \in FrameLoads : AdaptiveLimits(load)
    \/ EnableEmergencyMode
    \/ DisableEmergencyMode
    \/ \E u \in LedgerUsers : CheckLimit(u)
    \/ \E u \in LedgerUsers : QueueMessage(u)

SpecFrame == Init /\ [][NextFrame]_vars

\* A call of updateLimits, adaptiveLimits, enableEmergencyMode or
\* disableEmergencyMode.
SetsTier ==
    \/ \E nl \in UpdateInputs : UpdateLimits(nl)
    \/ \E load \in Loads : AdaptiveLimits(load)
    \/ EnableEmergencyMode
    \/ DisableEmergencyMode

\* C20: updateLimits, adaptiveLimits, enableEmergencyMode and
\* disableEmergencyMode change the active tier only: every bucket (token
\* counts, refill boundaries, counters) and every queue is as it was.
C20_TierOpsFrame ==
    [][SetsTier =>
        /\ userBuckets' = userBuckets
        /\ messageQueues' = messageQueues
        /\ arrays' = arrays
        /\ entries' = entries]_vars

\* The emergency tier is active while a bucket made under another tier still
\* holds more than the emergency ceilings, and a queue exists.
C20_Witness ==
    /\ limits = EmergencyLimits
    /\ \E u \in DOMAIN userBuckets :
          /\ userBuckets[u].totalRequests >= 1
          /\ userBuckets[u].hourTokens > EmergencyLimits.messagesPerHour
          /\ userBuckets[u].burstTokens > EmergencyLimits.burstLimit
          /\ u \in DOMAIN messageQueues

-----------------------------------------------------------------------------
(* Tier updates of every kind, with one identity's bucket                   *)

\* The fields of a tier configuration.
TierFields == { "messagesPerMinute", "messagesPerHour", "burstLimit" }

\* Records passed to updateLimits: the partial and the negative one, a
\* record with an unknown field, and a complete one.
TierUpdates ==
    UpdateInputs \cup { [priority |-> 1], getTierLimits("premium") }

NextUpdate ==
    \/ \E nl \in TierUpdates : UpdateLimits(nl)
    \/ \E u \in LedgerUsers : CheckLimit(u)
    \/ Tick(MinuteMs)

SpecUpdate == Init /\ [][NextUpdate]_vars

\* A record that has exactly the three fields, each with a value >= 0.
ValidTier(newLimits) ==
    /\ DOMAIN newLimits = TierFields
    /\ \A f \in TierFields : newLimits[f] >= 0

\* C21: a tier update that is partial, has an unknown field or has an
\* invalid value is rejected and leaves the active tier as it was; an
\* accepted update makes exactly the given record the active tier.
C21_InvalidUpdateRejected ==
    [][\A nl \in TierUpdates :
        UpdateLimits(nl) =>
            limits' = IF ValidTier(nl) THEN nl ELSE limits]_vars

-----------------------------------------------------------------------------
(* The cleanup without a scope and the system statistics, for two           *)
(* identities whose buckets age by 1, 59 and 60 minutes                    *)

\* The sum of f over the keys in S.
RECURSIVE Sum(_, _)
Sum(f, S) ==
    IF S = {}
    THEN 0
    ELSE LET x == CHOOSE y \in S : TRUE
         IN  f[x] + Sum(f, S \ {x})

\* The queues the second loop of cleanup deletes, counted in cleanedQueues.
cleanedQueues(queues, arrs, ents, sessionId, t) ==
    DOMAIN queues \ DOMAIN cleanupQueues(queues, arrs, ents, sessionId, t)

\* What cleanup(sessionId) returns.
cleanup(buckets, queues, arrs, ents, sessionId, t) ==
    [cleanedBuckets |-> Cardinality(cleanedBuckets(buckets, sessionId, t)),
     cleanedQueues |-> Cardinality(cleanedQueues(queues, arrs, ents, sessionId, t))]

\* What getSystemStats() returns (without its timestamp).
getSystemStats(buckets, queues, arrs, lim, t) ==
    [totalUsers |-> Cardinality(DOMAIN buckets),
     activeUsers |-> Cardinality({ u \in DOMAIN buckets :
                                     t - buckets[u].lastActivity < HourMs }),
     totalRequests |-> Sum([u \in DOMAIN buckets |-> buckets[u].totalRequests],
                           DOMAIN buckets),
     blockedRequests |-> Sum([u \in DOMAIN buckets |-> buckets[u].blockedRequests],
                             DOMAIN buckets),
     queuedMessages |-> Sum([u \in DOMAIN buckets \cap DOMAIN queues |->
                                Len(arrs[queues[u]])],
                            DOMAIN buckets \cap DOMAIN queues),
     limits |-> lim]

JanitorSteps == { MinuteMs, 59 * MinuteMs, HourMs }

NextJanitor ==
    \/ \E u \in Users : CheckLimit(u)
    \/ Cleanup(NoScope)
    \/ \E d \in JanitorSteps : Tick(d)

SpecJanitor == Init /\ [][NextJanitor]_vars

\* C22: cleanup() without a scope removes exactly the buckets whose
\* lastActivity is more than one hour old (61 minutes goes, 59 and 60
\* minutes stay), getSystemStats then counts only the buckets that stayed,
\* and the returned cleanedBuckets is the number of buckets removed.
C22_CleanupRemovesStaleBuckets ==
    [][Cleanup(NoScope) =>
        LET stale == { u \in DOMAIN userBuckets :
                         now - userBuckets[u].lastActivity > 60 * MinuteMs }
        IN  /\ DOMAIN userBuckets' = DOMAIN userBuckets \ stale
            /\ \A u \in DOMAIN userBuckets' : userBuckets'[u] = userBuckets[u]
            /\ getSystemStats(userBuckets', messageQueues', arrays', limits',
                              now').totalUsers
                  = Cardinality(DOMAIN userBuckets \ stale)
            /\ cleanup(userBuckets, messageQueues, arrays, entries, NoScope,
                       now).cleanedBuckets
                  = Cardinality(stale)]_vars

\* A bucket that was 61 minutes old is gone and one that is exactly 60
\* minutes old is there.
C22_Witness ==
    \E u \in Users, v \in DOMAIN userBuckets :
        /\ u \notin DOMAIN userBuckets
        /\ lastCall[u] # NoCall
        /\ now = 61 * MinuteMs
        /\ now - userBuckets[v].lastActivity = 60 * MinuteMs

-----------------------------------------------------------------------------
(* The cleanup of queues, for two identities' queues filled at different    *)
(* times                                                                    *)

NextQueueJanitor ==
    \/ \E u \in Users : QueueMessage(u)
    \/ \E s \in LedgerScopes : Cleanup(s)
    \/ \E d \in JanitorSteps : Tick(d)

SpecQueueJanitor == Init /\ [][NextQueueJanitor]_vars

\* The time at which the newest entry of userId's queue was queued.
NewestQueuedAt(userId) ==
    LET queue == QueueOf(messageQueues, arrays, userId)
    IN  entries[queue[Len(queue)]].queuedAt

\* C23: cleanup removes a queue if and only if it is empty, its newest entry
\* was queued more than the timeout ago, or its identity matches the scope;
\* a queue whose newest entry is within the timeout is kept with all its
\* entries, however old its oldest entries are.
C23_CleanupRemovesStaleQueues ==
    [][\A s \in Scopes :
        Cleanup(s) =>
            LET gone == { u \in DOMAIN messageQueues :
                            \/ Len(QueueOf(messageQueues, arrays, u)) = 0
                            \/ now - NewestQueuedAt(u) > 60 * MinuteMs
                            \/ s # NoScope /\ Includes(u, s) }
            IN  /\ DOMAIN messageQueues' = DOMAIN messageQueues \ gone
                /\ \A u \in DOMAIN messageQueues' :
                      /\ QueueOf(messageQueues', arrays', u)
                            = QueueOf(messageQueues, arrays, u)
                      /\ \A k \in 1..Len(QueueOf(messageQueues, arrays, u)) :
                            entries'[QueueOf(messageQueues, arrays, u)[k]]
                               = entries[QueueOf(messageQueues, arrays, u)[k]]]_vars

\* One identity's queue is gone, and another's is there with its oldest
\* entry older than the timeout and its newest entry within it.
C23_Witness ==
    \E u \in Users, v \in DOMAIN messageQueues :
        /\ u \notin DOMAIN messageQueues
        /\ nextId > MaxMessages
        /\ Len(QueueOf(messageQueues, arrays, v)) >= 2
        /\ now - entries[QueueOf(messageQueues, arrays, v)[1]].queuedAt > bucketTimeout
        /\ now - NewestQueuedAt(v) <= bucketTimeout

-----------------------------------------------------------------------------
(* Two sessions, each receiving the messages of one sender, and their       *)
(* teardown                                                                 *)

\* The clientIds of the sessions.
Sessions == { <<"a">>, <<"s">> }

\* The senders (message.from) whose messages arrive on session clientId:
\* sender "b2" writes to session "a" and sender "a1" to session "s".
SendersOf(clientId) ==
    IF clientId = <<"a">> THEN { <<"b", "2">> } ELSE { <<"a", "1">> }

\* The 'message' event of session clientId for a message from senderId.
MessageReceived(clientId, senderId) ==
    /\ senderId \in SendersOf(clientId)
    /\ ProcessIncomingMessage(senderId, "reply", "sent", "sent")

\* cleanupSession(clientId), which destroySession ends with on both paths:
\* the two deletes and rateLimiter.cleanup(clientId).
CleanupSession(clientId) ==
    /\ manager' = [clients |-> manager.clients \ {clientId},
                   sessions |-> Without(manager.sessions, {clientId})]
    /\ userBuckets' = cleanupBuckets(userBuckets, clientId, now)
    /\ QueueState(cleanupQueues(messageQueues, arrays, entries, clientId, now),
                  arrays, entries, drains)
    /\ UNCHANGED <<clockVars, limits, lastCall, nextId, delivered, lastInbound,
                   typing, typingDuration, autoReply>>

NextSession ==
    \/ \E c \in Sessions, u \in Users : MessageReceived(c, u)
    \/ \E c \in Sessions : CleanupSession(c)
    \/ \E d \in LedgerSteps : Tick(d)

SpecSession == Init /\ [][NextSession]_vars

\* C24: tearing down session clientId removes the bucket and queue of every
\* identity whose messages were received on that session, and removes no
\* bucket or queue that is not stale of an identity that belongs to another
\* session only.
C24_TeardownRemovesOwnIdentities ==
    [][\A c \in Sessions :
        CleanupSession(c) =>
            /\ \A u \in SendersOf(c) :
                  /\ u \notin DOMAIN userBuckets'
                  /\ u \notin DOMAIN messageQueues'
            /\ \A u \in Users \ SendersOf(c) :
                  /\ (/\ u \in DOMAIN userBuckets
                      /\ now - userBuckets[u].lastActivity <= bucketTimeout) =>
                          u \in DOMAIN userBuckets'
                  /\ (/\ u \in DOMAIN messageQueues
                      /\ now - NewestQueuedAt(u) <= bucketTimeout) =>
                          u \in DOMAIN messageQueues']_vars

-----------------------------------------------------------------------------
(* The pacing delay of a reply, and sendTypingMessage step by step          *)

\* Math.random() in thousandths: a draw d stands for the value d / 1000,
\* which lies in [0, 1).
RandomDraws == { 0, 250, 500, 750, 999 }

\* message.length of the replies paced: none, one character, short replies,
\* 200 characters and a very long reply.
MessageLengths == { 0, 1, 14, 50, 100, 200, 5000 }

baseDelay == 500
charDelay == 35
MinTypingDelay == 1000
MaxTypingDelay == 8000

\* generateTypingDelay without its lower clamp.
generateTypingDelayNoFloor(messageLength, draw1, draw2) ==
    LET typingTime   == messageLength * charDelay * (10000 + 3 * (draw1 - 500))
        thinkingTime == (baseDelay + draw2) * 10000
    IN  Min(typingTime + thinkingTime, MaxTypingDelay * 10000) \div 10000

\* generateTypingDelay(message) of utils.js, in ms, for a message of
\* messageLength characters and the two draws of Math.random().  The
\* randomMultiplier 1 + (random - 0.5) * 0.3 is (10000 + 3 * (draw1 - 500))
\* ten-thousandths, so the sum is computed in ten-thousandths of a ms and
\* Math.floor is the integer division that ends it.
generateTypingDelay(messageLength, draw1, draw2) ==
    LET typingTime   == messageLength * charDelay * (10000 + 3 * (draw1 - 500))
        thinkingTime == (baseDelay + draw2) * 10000
        totalDelay   == Min(Max(typingTime + thinkingTime, MinTypingDelay * 10000),
                            MaxTypingDelay * 10000)
    IN  totalDelay \div 10000

baseTypingDelay == 2000
typingDelayPerChar == 45
MinTypingDuration == 2000
MaxTypingDuration == 8000

\* calculateTypingDelay(message) of the WhatsAppHandler, in thousandths of a
\* ms (the code does not round it): randomFactor 0.5 + random is
\* (500 + draw) thousandths.
calculateTypingDelay(messageLength, draw) ==
    LET totalDelay == (baseTypingDelay + messageLength * typingDelayPerChar)
                          * (500 + draw)
    IN  Max(MinTypingDuration * 1000, Min(MaxTypingDuration * 1000, totalDelay))

\* The chat events of a sendTypingMessage call are "composing"
\* (chat.sendStateTyping), "wait" (one delay of the paced wait), "clear"
\* (chat.clearState) and "send" (chat.sendMessage).  The 200 ms pause inside
\* a refresh is no event.

\* sendTypingMessage(clientId, chat, message) up to the paced wait: the first
\* chat.sendStateTyping(), which succeeds or throws (ok), then the delay
\* computed for the message.
SendTypingMessage(messageLength, draw1, draw2, ok) ==
    /\ typing.pc \in { "idle", "sent", "threw" }
    /\ typing' =
          IF ok
          THEN LET typingDelay == generateTypingDelay(messageLength, draw1, draw2)
               IN  [pc |-> "loop", typingDelay |-> typingDelay,
                    intervals |-> typingDelay \div 1000, i |-> 0,
                    events |-> << "composing" >>, failed |-> "none"]
          ELSE [pc |-> "threw", typingDelay |-> 0, intervals |-> 0, i |-> 0,
                events |-> << >>, failed |-> "presence"]
    /\ UNCHANGED <<clockVars, ledgerVars, queueVars, lastInbound, typingDuration,
                   autoReply, manager>>

\* The refresh inside the loop for interval i: on every third interval
\* chat.clearState(), a pause, chat.sendStateTyping(); either call may throw.
TypingRefresh(i, okClear, okTyping) ==
    IF i % 3 # 0 THEN [events |-> << >>, threw |-> FALSE]
    ELSE IF ~okClear THEN [events |-> << >>, threw |-> TRUE]
    ELSE IF ~okTyping THEN [events |-> << "clear" >>, threw |-> TRUE]
    ELSE [events |-> << "clear", "composing" >>, threw |-> FALSE]

\* One iteration of the loop of sendTypingMessage: the delay, then the
\* refresh.
TypingInterval(okClear, okTyping) ==
    /\ typing.pc = "loop"
    /\ typing.i < typing.intervals
    /\ LET refresh == TypingRefresh(typing.i, okClear, okTyping)
       IN  typing' =
              [typing EXCEPT
                  !.events = (@ \o << "wait" >>) \o refresh.events,
                  !.i      = IF refresh.threw THEN @ ELSE @ + 1,
                  !.pc     = IF refresh.threw THEN "threw" ELSE @,
                  !.failed = IF refresh.threw THEN "presence" ELSE @]
    /\ UNCHANGED <<clockVars, ledgerVars, queueVars, lastInbound, typingDuration,
                   autoReply, manager>>

\* The end of sendTypingMessage that sends without clearing the presence.
TypingSendUncleared(okClear, okSend) ==
    /\ typing.pc = "loop"
    /\ typing.i = typing.intervals
    /\ typing' =
          IF ~okSend
          THEN [typing EXCEPT !.pc = "threw", !.failed = "send"]
          ELSE [typing EXCEPT !.pc = "sent", !.events = @ \o << "send" >>]
    /\ UNCHANGED <<clockVars, ledgerVars, queueVars, lastInbound, typingDuration,
                   autoReply, manager>>

\* The end of sendTypingMessage, after the loop: chat.clearState(), then
\* chat.sendMessage(message); a call that throws ends sendTypingMessage,
\* whose catch rethrows.
TypingSend(okClear, okSend) ==
    /\ typing.pc = "loop"
    /\ typing.i = typing.intervals
    /\ typing' =
          IF ~okClear
          THEN [typing EXCEPT !.pc = "threw", !.failed = "presence"]
          ELSE IF ~okSend
          THEN [typing EXCEPT !.pc = "threw", !.failed = "send",
                              !.events = @ \o << "clear" >>]
          ELSE [typing EXCEPT !.pc = "sent",
                              !.events = @ \o << "clear", "send" >>]
    /\ UNCHANGED <<clockVars, ledgerVars, queueVars, lastInbound, typingDuration,
                   autoReply, manager>>

\* The pacing of an auto-reply of the WhatsAppHandler: typingDuration is what
\* calculateTypingDelay returns for the reply.
SendAutoReply(messageLength, draw) ==
    /\ typingDuration' = calculateTypingDelay(messageLength, draw)
    /\ UNCHANGED <<clockVars, ledgerVars, queueVars, lastInbound, typing, autoReply,
                   manager>>

NextTyping ==
    \/ \E n \in MessageLengths, d1, d2 \in RandomDraws, ok \in BOOLEAN :
          SendTypingMessage(n, d1, d2, ok)
    \/ \E okClear, okTyping \in BOOLEAN : TypingInterval(okClear, okTyping)
    \/ \E okClear, okSend \in BOOLEAN : TypingSend(okClear, okSend)

SpecTyping == Init /\ [][NextTyping]_vars

NextPacing ==
    \/ \E n \in MessageLengths, d1, d2 \in RandomDraws :
          SendTypingMessage(n, d1, d2, TRUE)
    \/ \E okClear, okSend \in BOOLEAN : TypingSend(okClear, okSend)
    \/ \E okClear, okTyping \in BOOLEAN : TypingInterval(okClear, okTyping)
    \/ \E n \in MessageLengths, d \in RandomDraws : SendAutoReply(n, d)

SpecPacing == Init /\ [][NextPacing]_vars

\* The events of the paced wait from interval i on: one wait per interval,
\* and after the wait of every third interval a clear and a composing signal.
RECURSIVE PacedWait(_, _)
PacedWait(i, intervals) ==
    IF i >= intervals THEN << >>
    ELSE (<< "wait" >> \o (IF i % 3 = 0 THEN << "clear", "composing" >> ELSE << >>))
             \o PacedWait(i + 1, intervals)

OrderedEvents(intervals) ==
    (<< "composing" >> \o PacedWait(0, intervals)) \o << "clear", "send" >>

Waits(events) == Cardinality({ k \in 1..Len(events) : events[k] = "wait" })

\* C25: the events of every sendTypingMessage call are, in this order, the
\* composing presence, the paced wait with a clear and a reasserted composing
\* signal on every third interval, a clear, and the send: what a call has
\* issued so far is always a beginning of that sequence, a call that
\* returned has issued all of it, a send comes right after a clear, and
\* all the intervals of the wait come before it.
C25_PacedOrder ==
    LET events  == typing.events
        ordered == OrderedEvents(typing.intervals)
    IN  /\ Len(events) <= Len(ordered)
        /\ events = SubSeq(ordered, 1, Len(events))
        /\ typing.pc = "sent" => events = ordered
        /\ \A k \in 1..Len(events) :
              events[k] = "send" =>
                  /\ k = Len(events)
                  /\ k > 1
                  /\ events[k - 1] = "clear"
                  /\ Waits(events) = typing.intervals
                  /\ typing.intervals * 1000 <= typing.typingDelay
                  /\ typing.intervals >= 1

\* A call paced over seven intervals has returned: its wait was refreshed
\* three times.
C25_Witness ==
    /\ typing.pc = "sent"
    /\ typing.intervals = 7
    /\ Len(typing.events) = 1 + 7 + 3 * 2 + 2

\* C26: a call of sendTypingMessage in which chat.sendStateTyping or
\* chat.clearState failed has sent the message all the same.
C26_PresenceFailureNonFatal ==
    typing.failed = "presence" =>
        /\ Len(typing.events) > 0
        /\ typing.events[Len(typing.events)] = "send"

\* C27: every delay generateTypingDelay returns is a whole number of ms from
\* 1000 to 8000, and every duration calculateTypingDelay returns is from
\* 2000 to 8000 ms, whatever the length of the message and the draws.
C27_DelayWithinBounds ==
    [][/\ (typing'.pc = "loop" /\ typing.pc # "loop") =>
              typing'.typingDelay \in MinTypingDelay..MaxTypingDelay
       /\ typingDuration' # typingDuration =>
              /\ typingDuration' >= MinTypingDuration * 1000
              /\ typingDuration' <= MaxTypingDuration * 1000]_vars

\* Both clamps of both functions have acted: the shortest delay and the
\* longest duration, or the longest delay and the shortest duration.
C27_Witness ==
    \/ /\ typing.typingDelay = MinTypingDelay
       /\ typingDuration = MaxTypingDuration * 1000
    \/ /\ typing.typingDelay = MaxTypingDelay
       /\ typingDuration = MinTypingDuration * 1000

-----------------------------------------------------------------------------
(* The statistics over buckets and queues                                   *)

NextStats ==
    \/ \E u \in LedgerUsers : CheckLimit(u)
    \/ \E u \in Users : QueueMessage(u)
    \/ Cleanup(NoScope)
    \/ \E d \in LedgerSteps : Tick(d)

SpecStats == Init /\ [][NextStats]_vars

\* C28: getSystemStats reports the number of buckets, the number of buckets
\* whose lastActivity is less than one hour old, the sums of totalRequests
\* and blockedRequests over all buckets, and the number of entries in all
\* the queues of the queue mapping, whether their identity has a bucket or
\* not.
C28_StatsAggregateState ==
    LET stats == getSystemStats(userBuckets, messageQueues, arrays, limits, now)
    IN  /\ stats.totalUsers = Cardinality(DOMAIN userBuckets)
        /\ stats.activeUsers =
              Cardinality({ u \in DOMAIN userBuckets :
                              now - userBuckets[u].lastActivity < 60 * MinuteMs })
        /\ stats.totalRequests =
              Sum([u \in DOMAIN userBuckets |-> userBuckets[u].totalRequests],
                  DOMAIN userBuckets)
        /\ stats.blockedRequests =
              Sum([u \in DOMAIN userBuckets |-> userBuckets[u].blockedRequests],
                  DOMAIN userBuckets)
        /\ stats.queuedMessages =
              Sum([u \in DOMAIN messageQueues |->
                      Len(QueueOf(messageQueues, arrays, u))],
                  DOMAIN messageQueues)

-----------------------------------------------------------------------------
(* Requests checked under a named tier                                      *)

NextAdvanced ==
    \/ \E u \in Users, tier \in TierNames : CheckAdvancedLimit(u, tier)
    \/ Tick(MinuteMs)

SpecAdvanced == Init /\ [][NextAdvanced]_vars

\* C29: checkAdvancedLimit(userId, tier) evaluates the request against the
\* limits of the named tier: an identity without a bucket that is checked
\* under tier T gets a bucket with T's ceilings (less the burst token this
\* first request takes), and the tier that is active stays as it was.
C29_CheckedUnderNamedTier ==
    [][\A u \in Users, tier \in TierNames :
          (CheckAdvancedLimit(u, tier) /\ u \notin DOMAIN userBuckets) =>
              /\ lastCall'[u].result
              /\ userBuckets'[u].minuteTokens = getTierLimits(tier).messagesPerMinute
              /\ userBuckets'[u].hourTokens = getTierLimits(tier).messagesPerHour
              /\ userBuckets'[u].burstTokens = getTierLimits(tier).burstLimit - 1
              /\ limits' = limits]_vars

-----------------------------------------------------------------------------
(* Emergency mode over every tier that can be active                        *)

NextEmergency ==
    \/ \E nl \in TierUpdates : UpdateLimits(nl)
    \/ \E load \in FrameLoads : AdaptiveLimits(load)
    \/ EnableEmergencyMode
    \/ DisableEmergencyMode
    \/ \E u \in LedgerUsers : CheckLimit(u)

SpecEmergency == Init /\ [][NextEmergency]_vars

\* The three rates of the active tier.
ActiveTier(lim) ==
    [messagesPerMinute |-> lim.messagesPerMinute,
     messagesPerHour |-> lim.messagesPerHour,
     burstLimit |-> lim.burstLimit]

\* C30: whatever tier is active, enableEmergencyMode followed by
\* disableEmergencyMode leaves the default tier 2/min, 20/hour, burst 3
\* active, and so does every disableEmergencyMode, after an enable or not.
C30_DisableRestoresDefault ==
    /\ [](ActiveTier(updateLimits(updateLimits(limits, EmergencyLimits),
                                  DefaultLimits))
             = [messagesPerMinute |-> 2, messagesPerHour |-> 20, burstLimit |-> 3])
    /\ [][/\ (ActiveTier(limits) = EmergencyLimits /\ DisableEmergencyMode) =>
                ActiveTier(limits') = DefaultLimits
          /\ DisableEmergencyMode =>
                ActiveTier(limits') =
                    [messagesPerMinute |-> 2, messagesPerHour |-> 20,
                     burstLimit |-> 3]]_vars

\* The default tier is active again and there is a bucket that was created
\* in emergency mode: its first request left it the emergency ceilings.
C30_Witness ==
    /\ ActiveTier(limits) = DefaultLimits
    /\ \E u \in DOMAIN userBuckets :
          /\ userBuckets[u].totalRequests = 1
          /\ userBuckets[u].hourTokens = EmergencyLimits.messagesPerHour
          /\ userBuckets[u].minuteTokens = EmergencyLimits.messagesPerMinute

-----------------------------------------------------------------------------
(* Resetting an identity while its queue is being drained                   *)

NextReset ==
    \/ \E u \in Users : QueueMessage(u)
    \/ \E u \in Users : CheckLimit(u)
    \/ \E u \in Users : ResetUserLimits(u)
    \/ \E p \in QueueProcs, u \in QueueUsers : ProcessMessageQueue(p, u)
    \/ \E p \in QueueProcs : SendFunctionSettles(p, TRUE)
    \/ EnableEmergencyMode

SpecReset == Init /\ [][NextReset]_vars

\* The entries of userId's queue in the map, none if it has no queue.
QueuedFor(userId) ==
    IF userId \in DOMAIN messageQueues
    THEN { QueueOf(messageQueues, arrays, userId)[k] :
             k \in 1..Len(QueueOf(messageQueues, arrays, userId)) }
    ELSE {}

\* resetUserLimits(u) removes u's bucket and u's queue and leaves the bucket
\* and the queue of every other identity as they were.
ResetFrame ==
    \A u \in Users :
        ResetUserLimits(u) =>
            /\ u \notin DOMAIN userBuckets'
            /\ u \notin DOMAIN messageQueues'
            /\ \A v \in Users \ {u} :
                  /\ v \in DOMAIN userBuckets <=> v \in DOMAIN userBuckets'
                  /\ v \in DOMAIN userBuckets => userBuckets'[v] = userBuckets[v]
                  /\ v \in DOMAIN messageQueues <=> v \in DOMAIN messageQueues'
                  /\ v \in DOMAIN messageQueues =>
                        /\ QueueOf(messageQueues', arrays', v)
                              = QueueOf(messageQueues, arrays, v)
                        /\ \A m \in QueuedFor(v) : entries'[m] = entries[m]

\* checkLimit(u) for an identity without a bucket creates the bucket with the
\* three pools at the active ceilings and the counters at 0, and takes the
\* request from it: one burst token.
FreshAfterReset ==
    \A u \in Users :
        (CheckLimit(u) /\ u \notin DOMAIN userBuckets) =>
            /\ userBuckets'[u].minuteTokens = limits.messagesPerMinute
            /\ userBuckets'[u].hourTokens = limits.messagesPerHour
            /\ userBuckets'[u].burstTokens = limits.burstLimit - 1
            /\ userBuckets'[u].totalRequests = 1
            /\ userBuckets'[u].blockedRequests = 0
            /\ lastCall'[u].result

\* C31: resetUserLimits(id) removes the bucket and the queue of id and
\* changes no other identity's bucket or queue; the next checkLimit(id)
\* creates a fresh bucket at the active ceilings with counters from 0; and
\* the messages that were in id's queue are discarded unsent: no entry is
\* passed to the send function unless it is in its identity's queue.
C31_ResetDiscardsAndFrames ==
    [][/\ ResetFrame
       /\ FreshAfterReset
       /\ \A p \in Procs :
             (drains'[p].pc = "sending" /\ drains'[p] # drains[p]) =>
                 drains'[p].message \in QueuedFor(drains'[p].userId)]_vars

\* The frame of resetUserLimits and the fresh bucket of the next checkLimit,
\* which hold whether or not a pass is suspended in the send function.
ResetFrameAndFresh ==
    [][ResetFrame /\ FreshAfterReset]_vars

-----------------------------------------------------------------------------
(* The auto-replies of the single-session WhatsAppHandler                   *)

minReplyInterval == 60000
maxRepliesPerHour == 30

\* shouldAutoReply(message, contact, chat) at time t for a message from
\* `from`; eligible says that auto-reply is enabled, the chat is no group and
\* the body has at least two characters.  An identity never replied to has
\* lastReplyTime 0, which is further back than minReplyInterval at any
\* Date.now().
shouldAutoReply(ar, from, eligible, t) ==
    /\ eligible
    /\ ~(ar.hourlyReplyCount >= maxRepliesPerHour)
    /\ ~(/\ from \in DOMAIN ar.lastMessageTime
         /\ t - ar.lastMessageTime[from] < minReplyInterval)

\* handleIncomingMessage(message) in call slot h, up to the first await of
\* sendAutoReply, where it is suspended if shouldAutoReply said yes.
HandleIncomingMessage(h, from, eligible) ==
    /\ autoReply.calls[h].pc = "idle"
    /\ autoReply.messageCount < MaxMessages
    /\ autoReply' =
          [autoReply EXCEPT
              !.messageCount = @ + 1,
              !.calls[h] = IF shouldAutoReply(autoReply, from, eligible, now)
                           THEN [pc |-> "replying", from |-> from]
                           ELSE @]
    /\ UNCHANGED <<clockVars, ledgerVars, queueVars, lastInbound, typing,
                   typingDuration, manager>>

ReplyOutcomes == { "sent", "empty", "fallback", "failed" }

\* The rest of sendAutoReply in call slot h: the AI reply is sent and the
\* counters and lastMessageTime are written ("sent"), the AI returns nothing
\* ("empty"), a call in the try block throws and the fallback message is sent
\* ("fallback"), or the fallback fails as well ("failed").
sendAutoReply(ar, h, outcome, t) ==
    LET from == ar.calls[h].from
        done == [ar EXCEPT !.calls[h] = [pc |-> "idle", from |-> << >>]]
    IN  CASE outcome = "sent" ->
                [done EXCEPT
                    !.hourlyReplyCount = @ + 1,
                    !.lastMessageTime = (from :> t) @@ @,
                    !.sent = Append(@, [to |-> from, at |-> t, kind |-> "reply"]),
                    !.sentThisHour = @ + 1]
          [] outcome = "fallback" ->
                [done EXCEPT
                    !.sent = Append(@, [to |-> from, at |-> t, kind |-> "fallback"]),
                    !.sentThisHour = @ + 1]
          [] OTHER -> done

AutoReplySettles(h, outcome) ==
    /\ autoReply.calls[h].pc = "replying"
    /\ autoReply' = sendAutoReply(autoReply, h, outcome, now)
    /\ UNCHANGED <<clockVars, ledgerVars, queueVars, lastInbound, typing,
                   typingDuration, manager>>

\* The setInterval callback of initialize, one hour after the last one.
HourlyReset ==
    /\ now - autoReply.lastHourReset >= HourMs
    /\ autoReply' = [autoReply EXCEPT !.hourlyReplyCount = 0,
                                      !.lastHourReset = now,
                                      !.sentThisHour = 0]
    /\ UNCHANGED <<clockVars, ledgerVars, queueVars, lastInbound, typing,
                   typingDuration, manager>>

\* The handler at the start of its run, or later in an hour in which it has
\* sent RepliedBefore replies, to identities other than the two followed here.
RepliedBefore == { 0, maxRepliesPerHour - 1 }

InitReplies ==
    /\ now = 0
    /\ ticks = 0
    /\ limits = DefaultLimits
    /\ userBuckets = <<>>
    /\ lastCall = [u \in Users |-> NoCall]
    /\ messageQueues = <<>>
    /\ arrays = <<>>
    /\ entries = <<>>
    /\ nextId = 1
    /\ drains = [p \in Procs |-> NoDrain]
    /\ delivered = [u \in Users |-> <<>>]
    /\ lastInbound = NoInbound
    /\ typing = NoTyping
    /\ typingDuration = 0
    /\ \E n \in RepliedBefore :
          autoReply = [NoAutoReply EXCEPT !.hourlyReplyCount = n,
                                          !.sentThisHour = n]
    /\ manager = NoSessions

ReplySteps == { HalfMinuteMs, MinuteMs, HourMs }

NextReplies ==
    \/ \E h \in Procs, u \in Users, eligible \in BOOLEAN :
          HandleIncomingMessage(h, u, eligible)
    \/ \E h \in Procs, outcome \in ReplyOutcomes : AutoReplySettles(h, outcome)
    \/ HourlyReset
    \/ \E d \in ReplySteps : Tick(d)

SpecReplies == InitReplies /\ [][NextReplies]_vars

\* C32: no two auto-replies are sent to the same identity less than
\* minReplyInterval (60 s) apart, also when several messages of the identity
\* are being handled at once.
C32_OneReplyPerInterval ==
    \A j, k \in 1..Len(autoReply.sent) :
        (/\ j < k
         /\ autoReply.sent[j].to = autoReply.sent[k].to
         /\ autoReply.sent[j].kind = "reply"
         /\ autoReply.sent[k].kind = "reply") =>
            autoReply.sent[k].at - autoReply.sent[j].at >= minReplyInterval

\* C33: between two hourly resets no more than maxRepliesPerHour (30)
\* messages are sent, replies and fallback messages together, and
\* hourlyReplyCount never exceeds maxRepliesPerHour.
C33_HourlyCap ==
    /\ autoReply.sentThisHour <= maxRepliesPerHour
    /\ autoReply.hourlyReplyCount <= maxRepliesPerHour

-----------------------------------------------------------------------------
(* Overlapping drain passes: double delivery and loss                       *)

\* C34: no queued message is delivered twice: with two processMessageQueue
\* calls of one identity overlapping, no entry is passed to a successful
\* send more than once.
C34_NoDoubleDelivery ==
    \A u \in Users :
        \A j, k \in 1..Len(delivered[u]) :
            j # k => delivered[u][j] # delivered[u][k]

\* The entries of userId's queue in the map after the step.
QueuedForNext(userId) ==
    IF userId \in DOMAIN messageQueues'
    THEN { QueueOf(messageQueues', arrays', userId)[k] :
             k \in 1..Len(QueueOf(messageQueues', arrays', userId)) }
    ELSE {}

Delivered(d, userId) == { d[userId][j] : j \in 1..Len(d[userId]) }

\* Entry m of userId's queue has failed its third send, in this step or
\* before it.
GaveUp(m) ==
    \/ entries[m].retryCount >= MaxRetries
    \/ /\ entries[m].retryCount = MaxRetries - 1
       /\ \E p \in Procs :
             /\ drains[p].pc = "sending"
             /\ drains[p].message = m
             /\ SendFunctionSettles(p, FALSE)

\* C35: no queued message is lost: an entry leaves its identity's queue only
\* because it has been sent, has failed 3 sends, was the oldest entry when a
\* full queue took a new one, or was removed by resetUserLimits or cleanup.
C35_NoLoss ==
    [][\A u \in Users :
          \A m \in QueuedFor(u) \ QueuedForNext(u) :
              \/ m \in Delivered(delivered', u)
              \/ GaveUp(m)
              \/ /\ QueueMessage(u)
                 /\ Len(QueueOf(messageQueues, arrays, u)) >= QueueCapacity
                 /\ m = QueueOf(messageQueues, arrays, u)[1]
              \/ ResetUserLimits(u)
              \/ \E s \in Scopes : Cleanup(s)]_vars

-----------------------------------------------------------------------------
(* One identity under a fixed tier over the minutes of an hour              *)

\* The smallest tier updateLimits can install with every rate positive.
ScarceLimits == [messagesPerMinute |-> 1, messagesPerHour |-> 1, burstLimit |-> 1]

SlidingTiers == { EmergencyLimits, ScarceLimits }

InitSliding ==
    /\ InitEmpty
    /\ limits \in SlidingTiers

SlidingSteps == { MinuteMs, 2 * MinuteMs }

NextSliding ==
    \/ \E u \in LedgerUsers : CheckLimit(u)
    \/ \E d \in SlidingSteps : Tick(d)

SpecSliding == InitSliding /\ [][NextSliding]_vars

\* The requests of the bucket that were admitted, all of them since createdAt.
Admitted(bucket) == bucket.totalRequests - bucket.blockedRequests

\* C36: under a fixed tier, the requests admitted for one identity within
\* 60 minutes are never more than messagesPerHour + burstLimit; here the 60
\* minutes are those since the bucket was created.
C36_SlidingHourBound ==
    \A u \in DOMAIN userBuckets :
        now - userBuckets[u].createdAt < HourMs =>
            Admitted(userBuckets[u]) <= limits.messagesPerHour + limits.burstLimit

-----------------------------------------------------------------------------
(* Refills of one span of minutes, checked once or several times            *)

NinetySeconds == 3 * HalfMinuteMs

\* The bucket after a check every 90 seconds over `checks` such intervals
\* from time t on, as far as its refill goes.
RECURSIVE RefilledEvery90s(_, _, _, _)
RefilledEvery90s(bucket, lim, t, checks) ==
    IF checks = 0 THEN bucket
    ELSE RefilledEvery90s(refillBucket(bucket, lim, t + NinetySeconds), lim,
                          t + NinetySeconds, checks - 1)

\* C37: what a bucket regains over a span of N whole minutes does not depend
\* on the checks within the span: over 3 minutes, two refills 90 seconds
\* apart leave the minute pool and the burst pool as one refill at the end
\* of the span does.
C37_RefillIndependentOfChecks ==
    \A u \in DOMAIN userBuckets :
        LET bucket == userBuckets[u]
            once   == refillBucket(bucket, limits, now + 2 * NinetySeconds)
            twice  == RefilledEvery90s(bucket, limits, now, 2)
        IN  (/\ bucket.minuteRefillTime = now
             /\ bucket.minuteTokens < limits.messagesPerMinute
             /\ bucket.burstTokens < limits.burstLimit) =>
                /\ twice.minuteTokens = once.minuteTokens
                /\ twice.burstTokens = once.burstTokens

-----------------------------------------------------------------------------
(* The tokens a drain pass pays for its send attempts                       *)

\* The tokens of a bucket that a request can be paid from: a request takes
\* one burst token, or one minute token together with one hour token.
Payable(bucket) == bucket.burstTokens + bucket.minuteTokens

\* Pass p starts a send attempt in this step.
StartsAttempt(p) == drains'[p].pc = "sending" /\ drains'[p] # drains[p]

\* C38: every send attempt of processMessageQueue comes right after a
\* checkLimit of that identity that admitted and took exactly one token; a
\* step of a pass that starts no attempt takes no token, so the token of an
\* attempt whose send fails is not given back; and with the clock standing
\* still the tokens gone from a bucket are as many as the attempts made,
\* which are at least the sends that succeeded.
C38_AttemptsPaid ==
    /\ [][\A p \in Procs :
            (drains[p] # drains'[p]) =>
                LET u == IF drains'[p].pc = "sending"
                         THEN drains'[p].userId ELSE drains[p].userId
                    refilled == getUserBucket(userBuckets, limits, u, now)[u]
                IN  IF StartsAttempt(p)
                    THEN /\ lastCall'[u].result
                         /\ Payable(userBuckets'[u]) = Payable(refilled) - 1
                         /\ Admitted(userBuckets'[u]) = Admitted(refilled) + 1
                    ELSE \/ userBuckets' = userBuckets
                         \/ /\ ~lastCall'[u].result
                            /\ Payable(userBuckets'[u]) = Payable(refilled)
                            /\ Admitted(userBuckets'[u]) = Admitted(refilled)]_vars
    /\ [](\A u \in DOMAIN userBuckets :
            /\ Payable(createNewBucket(limits, u, now)) - Payable(userBuckets[u])
                  = Admitted(userBuckets[u])
            /\ Len(delivered[u]) <= Admitted(userBuckets[u]))

\* No pass is in progress, a send has succeeded and a send has failed, whose
\* entry is still queued, and three tokens are gone from the bucket.
C38_Witness ==
    /\ Quiescent
    /\ \E u \in DOMAIN userBuckets :
          /\ Len(delivered[u]) = 1
          /\ \E m \in QueuedFor(u) : entries[m].retryCount = 2
          /\ Admitted(userBuckets[u]) = 3
          /\ Payable(userBuckets[u]) = Payable(createNewBucket(limits, u, now)) - 3

-----------------------------------------------------------------------------
(* Creating and destroying sessions                                         *)

\* createSession(clientId): a clientId that has a client throws inside the
\* try block, and so does a client.initialize() that fails (initialized is
\* FALSE); the catch block calls cleanupSession(clientId) and rethrows.
CreateSession(clientId, initialized) ==
    IF clientId \notin manager.clients /\ initialized
    THEN /\ manager' = [clients |-> manager.clients \cup {clientId},
                        sessions |-> (clientId :> "initializing") @@ manager.sessions]
         /\ UNCHANGED <<clockVars, ledgerVars, queueVars, lastInbound, typing,
                        typingDuration, autoReply>>
    ELSE CleanupSession(clientId)

DestroySession(clientId) == CleanupSession(clientId)

\* The 'message' event of a session that exists.
SessionMessage(clientId, senderId) ==
    /\ clientId \in manager.clients
    /\ MessageReceived(clientId, senderId)

NextManager ==
    \/ \E c \in Sessions, initialized \in BOOLEAN : CreateSession(c, initialized)
    \/ \E c \in Sessions : DestroySession(c)
    \/ \E c \in Sessions, u \in Users : SessionMessage(c, u)
    \/ \E d \in LedgerSteps : Tick(d)

SpecManager == Init /\ [][NextManager]_vars

\* C39: createSession(clientId) for a clientId that already has a session
\* leaves the existing client and session record in the manager's maps and
\* leaves the rate limiter's buckets and queues as they were.
C39_DuplicateCreateKeepsSession ==
    [][\A c \in Sessions, initialized \in BOOLEAN :
          (c \in manager.clients /\ CreateSession(c, initialized)) =>
              /\ manager' = manager
              /\ userBuckets' = userBuckets
              /\ messageQueues' = messageQueues]_vars

====
